---- MODULE Spec2Model ----
(***************************************************************************)
(* Model of the decorator interface of mcp_agent                           *)
(* (src/src/mcp_agent/core/decorator_app.py): the registry self.agents,    *)
(* the declaration decorators, the dependency walk of the parallel agents, *)
(* the builder of run() and the model resolution of _get_model_factory.    *)
(***************************************************************************)
EXTENDS Integers, Sequences, FiniteSets, TLC

VARIABLES agents, default_model, args_model, phase, lastRun, prevRun, log,
          app, procs, world, obs, wrapper, exec, prompt, settings, scope

vars == <<agents, default_model, args_model, phase, lastRun, prevRun, log,
          app, procs, world, obs, wrapper, exec, prompt, settings, scope>>

\* The variables of the application object and of the tasks that use it.
appVars == <<app, procs, world, obs>>

\* The variables of what is called on the built agents and on the prompt
\* messages: the AgentAppWrapper, the workflow in execution and the
\* messages converted; the settings of the process; the run scope of the
\* decorator interface.
callVars == <<wrapper, exec, prompt, settings, scope>>

\* The variables of the decorator interface.
declVars == <<agents, default_model, args_model, phase, lastRun, prevRun, log>>

\* Python's None.
NULL == "None"

\* AgentType (the enumeration's values).
BASIC == "agent"
ORCHESTRATOR == "orchestrator"
PARALLEL == "parallel"
EVALUATOR_OPTIMIZER == "evaluator_optimizer"

\* The node names the declarations draw from.
Names == {"A", "B", "C"}

\* The fan_in names the declarations of parallel agents draw from.
FanIns == {"C"}

\* The instruction texts the declarations draw from.
Instructions == {"i1", "i2"}

\* Bound: the number of fan-out references held by the registry as a whole.
MaxFanOutRefs == 3

----------------------------------------------------------------------------
\* Helpers over sequences.

Range(s) == {s[i] : i \in 1..Len(s)}

NoDuplicates(s) == \A i, j \in 1..Len(s) : s[i] = s[j] => i = j

IndexOf(s, x) == CHOOSE i \in 1..Len(s) : s[i] = x

\* The names of the records of a sequence.
NamesOf(built) == [i \in 1..Len(built) |-> built[i].name]

\* The fan-out references held by the entries of reg from the i-th on,
\* the entry called name left out.
RECURSIVE FanOutRefs(_, _, _)
FanOutRefs(reg, name, i) ==
    IF i > Len(reg) THEN 0
    ELSE (IF reg[i].name = name THEN 0 ELSE Len(reg[i].fan_out))
         + FanOutRefs(reg, name, i + 1)

\* All sequences over S of length at most n.
SeqsUpTo(S, n) == UNION {[1..k -> S] : k \in 0..n}

----------------------------------------------------------------------------
\* self.agents: a dict, kept as the sequence of its values in insertion
\* order; every value carries its key as .name.

HasKey(reg, name) == \E i \in 1..Len(reg) : reg[i].name = name

Lookup(reg, name) == reg[CHOOSE i \in 1..Len(reg) : reg[i].name = name]

\* self.agents[name] = entry keeps first declaration instead of overwriting.
DictSetKeepFirst(reg, entry) ==
    IF HasKey(reg, entry.name) THEN reg ELSE Append(reg, entry)

\* self.agents[name] = entry: a new key is appended, an existing key keeps
\* its position and takes the new value.
DictSet(reg, entry) ==
    IF HasKey(reg, entry.name)
    THEN [i \in 1..Len(reg) |->
             IF reg[i].name = entry.name THEN entry ELSE reg[i]]
    ELSE Append(reg, entry)

\* A RequestParams object, of which the model field is kept, the one field
\* the resolution of the model writes; NoRequestParams is None.
NoRequestParams == [none |-> TRUE, model |-> NULL]

RequestParams(model) == [none |-> FALSE, model |-> model]

\* The entry agent() stores: base_params carries the decorator's model.
BasicEntry(name, instruction, model) ==
    [name |-> name, type |-> BASIC, instruction |-> instruction,
     model |-> model, default_request_params |-> RequestParams(model),
     fan_out |-> <<>>, fan_in |-> NULL]

\* The entry parallel() stores: params is RequestParams() with no model.
ParallelEntry(name, fan_in, fan_out, instruction, model) ==
    [name |-> name, type |-> PARALLEL, instruction |-> instruction,
     model |-> model, default_request_params |-> RequestParams(NULL),
     fan_out |-> fan_out, fan_in |-> fan_in]

\* The entry orchestrator() stores: base_params is made without a model.
OrchestratorEntry(name, instruction, child_agents, model) ==
    [name |-> name, type |-> ORCHESTRATOR, instruction |-> instruction,
     model |-> model, default_request_params |-> RequestParams(NULL),
     fan_out |-> <<>>, fan_in |-> NULL, child_agents |-> child_agents]

\* The entry evaluator_optimizer() stores: the config has no instruction
\* and no model, and request_params as given, None.
EvaluatorOptimizerEntry(name, optimizer, evaluator, min_rating, max_refinements) ==
    [name |-> name, type |-> EVALUATOR_OPTIMIZER, instruction |-> "",
     model |-> NULL, default_request_params |-> NoRequestParams,
     fan_out |-> <<>>, fan_in |-> NULL,
     optimizer |-> optimizer, evaluator |-> evaluator,
     min_rating |-> min_rating, max_refinements |-> max_refinements]

----------------------------------------------------------------------------
\* Iteration orders.

Perms(S) ==
    {p \in [1..Cardinality(S) -> S] :
        \A i, j \in 1..Cardinality(S) : p[i] = p[j] => i = j}

\* The sequences iterating over a Python set S of strings can yield: the
\* order is that of the strings' hashes, which str hash randomisation draws
\* anew for every process, so every order of the elements.
SetIterOrders(S) == Perms(S)

----------------------------------------------------------------------------
\* _get_parallel_dependencies(name, visited, path).  visited and path are
\* sets the callee mutates in place, so the result carries them back along
\* with the returned list; error is NULL on a normal return.  On a raise,
\* path is the set as the raising frame saw it, closing the name found in
\* it, and stack the names of the frames the exception passed through,
\* outermost first.

Returned(deps, visited, path) ==
    [error |-> NULL, deps |-> deps, visited |-> visited, path |-> path,
     closing |-> NULL, stack |-> <<>>]

RaisedCircular(name, visited, path) ==
    [error |-> "circular", deps |-> <<>>, visited |-> visited, path |-> path,
     closing |-> name, stack |-> <<>>]

RaisedKeyError(name, visited, path) ==
    [error |-> "KeyError", deps |-> <<>>, visited |-> visited, path |-> path,
     closing |-> name, stack |-> <<>>]

Unwind(r, name) == [r EXCEPT !.stack = <<name>> \o r.stack]

RECURSIVE GetParallelDependencies(_, _, _, _)
RECURSIVE FanOutLoop(_, _, _, _, _, _)

\* The walk with the node appended before its fan-out is walked.
GetParallelDependenciesPreOrder(reg, name, visited, path) ==
    IF name \in path THEN RaisedCircular(name, visited, path)
    ELSE IF name \in visited THEN Returned(<<>>, visited, path)
    ELSE IF ~HasKey(reg, name) THEN Returned(<<>>, visited, path)
    ELSE IF Lookup(reg, name).type # PARALLEL THEN Returned(<<>>, visited, path)
    ELSE LET r == FanOutLoop(reg, Lookup(reg, name).fan_out, 1,
                             visited, path \cup {name}, <<name>>)
         IN  IF r.error # NULL THEN Unwind(r, name)
             ELSE Returned(r.deps, r.visited \cup {name}, r.path \ {name})

\* The walk that marks a node visited on entry and never looks at path.
GetParallelDependenciesNoPath(reg, name, visited, path) ==
    IF name \in visited THEN Returned(<<>>, visited, path)
    ELSE IF ~HasKey(reg, name) THEN Returned(<<>>, visited, path)
    ELSE IF Lookup(reg, name).type # PARALLEL THEN Returned(<<>>, visited, path)
    ELSE LET r == FanOutLoop(reg, Lookup(reg, name).fan_out, 1,
                             visited \cup {name}, path, <<>>)
         IN  IF r.error # NULL THEN Unwind(r, name)
             ELSE Returned(Append(r.deps, name), r.visited, r.path)

\* The walk that never adds to visited.
GetParallelDependenciesNoVisited(reg, name, visited, path) ==
    IF name \in path THEN RaisedCircular(name, visited, path)
    ELSE IF name \in visited THEN Returned(<<>>, visited, path)
    ELSE IF ~HasKey(reg, name) THEN Returned(<<>>, visited, path)
    ELSE IF Lookup(reg, name).type # PARALLEL THEN Returned(<<>>, visited, path)
    ELSE LET r == FanOutLoop(reg, Lookup(reg, name).fan_out, 1,
                             visited, path \cup {name}, <<>>)
         IN  IF r.error # NULL THEN Unwind(r, name)
             ELSE Returned(Append(r.deps, name), r.visited, r.path \ {name})

\* The walk without the test for an unregistered name: self.agents[name]
\* raises KeyError.
GetParallelDependenciesNoLeaf(reg, name, visited, path) ==
    IF name \in path THEN RaisedCircular(name, visited, path)
    ELSE IF name \in visited THEN Returned(<<>>, visited, path)
    ELSE IF ~HasKey(reg, name) THEN RaisedKeyError(name, visited, path)
    ELSE IF Lookup(reg, name).type # PARALLEL THEN Returned(<<>>, visited, path)
    ELSE LET r == FanOutLoop(reg, Lookup(reg, name).fan_out, 1,
                             visited, path \cup {name}, <<>>)
         IN  IF r.error # NULL THEN Unwind(r, name)
             ELSE Returned(Append(r.deps, name), r.visited \cup {name},
                           r.path \ {name})

GetParallelDependencies(reg, name, visited, path) ==
    IF name \in path THEN RaisedCircular(name, visited, path)
    ELSE IF name \in visited THEN Returned(<<>>, visited, path)
    ELSE IF ~HasKey(reg, name) THEN Returned(<<>>, visited, path)
    ELSE IF Lookup(reg, name).type # PARALLEL THEN Returned(<<>>, visited, path)
    ELSE LET r == FanOutLoop(reg, Lookup(reg, name).fan_out, 1,
                             visited, path \cup {name}, <<>>)
         IN  IF r.error # NULL THEN Unwind(r, name)
             ELSE Returned(Append(r.deps, name), r.visited \cup {name},
                           r.path \ {name})

\* for fan_out in config["fan_out"]: deps.extend(<recursive call>), from
\* the i-th element on; a raise in a call ends the loop.
FanOutLoop(reg, fan_out, i, visited, path, deps) ==
    IF i > Len(fan_out) THEN Returned(deps, visited, path)
    ELSE LET r == GetParallelDependencies(reg, fan_out[i], visited, path)
         IN  IF r.error # NULL THEN r
             ELSE FanOutLoop(reg, fan_out, i + 1, r.visited, r.path,
                             deps \o r.deps)

\* The text of the ValueError the walk raises, as its words:
\* "Circular dependency detected: " + " -> ".join(path) + " -> " + name.
\* path_order is the order in which join iterates over path.
CircularMessage(path_order, name) ==
    <<"Circular dependency detected:">> \o path_order \o <<name>>

----------------------------------------------------------------------------
\* _get_model_factory.  env is what the resolution reads besides its
\* arguments: [default_model |-> context.config.default_model,
\* args_model |-> self.args.model].

\* The truth value Python gives a value that is None or a string.
Truthy(s) == s # NULL /\ s # ""

\* model_spec: the config default, replaced by the command line's model
\* and then by the decorator's model where "if <value>:" lets them.
ModelSpec(env, model) ==
    IF Truthy(model) THEN model
    ELSE IF Truthy(env.args_model) THEN env.args_model
    ELSE env.default_model

\* The resolution writing the final model into the caller's object
\* (request_params.model = model_spec) instead of into a copy.
GetModelFactoryInPlace(env, model, request_params) ==
    LET model_spec == ModelSpec(env, model)
    IN  [env |-> env,
         request_params |-> IF request_params.none THEN request_params
                            ELSE RequestParams(model_spec),
         factory |-> [model_spec |-> model_spec,
                      request_params |-> RequestParams(model_spec)]]

\* _get_model_factory(model, request_params).  The result: env and
\* request_params, the objects the caller handed in as they are after the
\* call; factory, the arguments given to ModelFactory.create_factory.  The
\* request_params given to the factory is model_copy(update={"model":
\* model_spec}) of the caller's, or a new RequestParams(model=model_spec)
\* when the caller gave none: with the model field alone kept, the same.
GetModelFactory(env, model, request_params) ==
    LET model_spec == ModelSpec(env, model)
    IN  [env |-> env,
         request_params |-> request_params,
         factory |-> [model_spec |-> model_spec,
                      request_params |-> RequestParams(model_spec)]]

----------------------------------------------------------------------------
\* The builder of run().

\* An exception as its type and the words of its text; NoError is no
\* exception.
NoError == [type |-> NULL, msg |-> <<>>]

KeyError(name) == [type |-> "KeyError", msg |-> <<name>>]

\* The loop of run() over the basic agents, from the i-th entry on: one
\* Agent per BASIC entry, in the order of self.agents, its LLM made by the
\* factory of its model.  reg and env are carried along as the calls of
\* _get_model_factory leave them.
RECURSIVE CreateBasicAgents(_, _, _, _)
CreateBasicAgents(reg, i, env, active_agents) ==
    IF i > Len(reg)
    THEN [reg |-> reg, env |-> env, active_agents |-> active_agents]
    ELSE IF reg[i].type = BASIC
    THEN LET f == GetModelFactory(env, reg[i].model,
                                  reg[i].default_request_params)
         IN  CreateBasicAgents(
                 [reg EXCEPT ![i].default_request_params = f.request_params],
                 i + 1, f.env,
                 Append(active_agents,
                        [name |-> reg[i].name, type |-> BASIC,
                         instruction |-> reg[i].instruction,
                         llm |-> f.factory,
                         fan_out_agents |-> <<>>, fan_in_agent |-> NULL]))
    ELSE CreateBasicAgents(reg, i + 1, env, active_agents)

\* ModelFactory.parse_model_string(model_string).model_name, for a model
\* string that names a model with no provider and no reasoning effort: the
\* string itself.
ParseModelString(model_string) == [model_name |-> model_string]

\* child_agents = [active_agents[agent_name] for agent_name in
\* agent_data["child_agents"]], from the i-th name on: a missing key raises
\* KeyError.
RECURSIVE ChildAgents(_, _, _, _)
ChildAgents(child_agents, i, active_agents, acc) ==
    IF i > Len(child_agents) THEN [error |-> NoError, agents |-> acc]
    ELSE IF HasKey(active_agents, child_agents[i])
    THEN ChildAgents(child_agents, i + 1, active_agents,
                     Append(acc, child_agents[i]))
    ELSE [error |-> KeyError(child_agents[i]), agents |-> acc]

\* _create_orchestrators(agent_app, active_agents), from the i-th entry
\* of self.agents on: base_params is a copy of the entry's params, or new
\* ones, with the parsed model; the factory is made of the entry's model
\* string; the children are looked up in active_agents.  attempted lists
\* the entries whose construction was begun.
RECURSIVE CreateOrchestrators(_, _, _, _, _, _)
CreateOrchestrators(reg, i, active_agents, env, orchestrators, attempted) ==
    IF i > Len(reg)
    THEN [error |-> NoError, orchestrators |-> orchestrators,
          attempted |-> attempted, env |-> env]
    ELSE IF reg[i].type # ORCHESTRATOR
    THEN CreateOrchestrators(reg, i + 1, active_agents, env, orchestrators,
                             attempted)
    ELSE LET resolved_model == ParseModelString(reg[i].model).model_name
             f == GetModelFactory(env, reg[i].model,
                                  RequestParams(resolved_model))
             c == ChildAgents(reg[i].child_agents, 1, active_agents, <<>>)
         IN  IF c.error # NoError
             THEN [error |-> c.error, orchestrators |-> orchestrators,
                   attempted |-> Append(attempted, reg[i].name),
                   env |-> f.env]
             ELSE CreateOrchestrators(reg, i + 1, active_agents, f.env,
                      Append(orchestrators,
                             [name |-> reg[i].name, type |-> ORCHESTRATOR,
                              instruction |-> reg[i].instruction,
                              llm |-> f.factory,
                              available_agents |-> c.agents]),
                      Append(attempted, reg[i].name))

RECURSIVE ParallelNamesFrom(_, _)
ParallelNamesFrom(reg, i) ==
    IF i > Len(reg) THEN <<>>
    ELSE IF reg[i].type = PARALLEL
         THEN <<reg[i].name>> \o ParallelNamesFrom(reg, i + 1)
         ELSE ParallelNamesFrom(reg, i + 1)

\* parallel_names as iterating over a set of the names could give it: in
\* any order.
ParallelNamesHashOrder(reg) == Perms(Range(ParallelNamesFrom(reg, 1)))

\* The lists parallel_names can be: the one list of the parallel entries
\* in the order of self.agents, a dict, which iterates in insertion order.
ParallelNames(reg) == {ParallelNamesFrom(reg, 1)}

\* The fan_out_agents list of one parallel agent, from the i-th name on:
\* each name is taken from parallel_agents when it is there and else from
\* active_agents, where a missing key raises KeyError.
RECURSIVE FanOutAgents(_, _, _, _, _)

\* The list made by putting every agent found in front of those found
\* before it.
FanOutAgentsPrepend(fan_out, i, parallel_agents, active_agents, acc) ==
    IF i > Len(fan_out) THEN [error |-> NoError, agents |-> acc]
    ELSE IF HasKey(parallel_agents, fan_out[i])
         THEN FanOutAgents(fan_out, i + 1, parallel_agents, active_agents,
                  <<[name |-> fan_out[i], from |-> "parallel_agents"]>> \o acc)
    ELSE IF HasKey(active_agents, fan_out[i])
         THEN FanOutAgents(fan_out, i + 1, parallel_agents, active_agents,
                  <<[name |-> fan_out[i], from |-> "active_agents"]>> \o acc)
    ELSE [error |-> KeyError(fan_out[i]), agents |-> acc]

\* The list made by looking every name up in active_agents alone.
FanOutAgentsActiveOnly(fan_out, i, parallel_agents, active_agents, acc) ==
    IF i > Len(fan_out) THEN [error |-> NoError, agents |-> acc]
    ELSE IF HasKey(active_agents, fan_out[i])
         THEN FanOutAgents(fan_out, i + 1, parallel_agents, active_agents,
                  Append(acc, [name |-> fan_out[i], from |-> "active_agents"]))
    ELSE [error |-> KeyError(fan_out[i]), agents |-> acc]

FanOutAgents(fan_out, i, parallel_agents, active_agents, acc) ==
    IF i > Len(fan_out) THEN [error |-> NoError, agents |-> acc]
    ELSE IF HasKey(parallel_agents, fan_out[i])
         THEN FanOutAgents(fan_out, i + 1, parallel_agents, active_agents,
                  Append(acc, [name |-> fan_out[i], from |-> "parallel_agents"]))
    ELSE IF HasKey(active_agents, fan_out[i])
         THEN FanOutAgents(fan_out, i + 1, parallel_agents, active_agents,
                  Append(acc, [name |-> fan_out[i], from |-> "active_agents"]))
    ELSE [error |-> KeyError(fan_out[i]), agents |-> acc]

\* for agent_name in ordered_agents: build it unless parallel_agents holds
\* it already.  parallel_agents lists the agents in the order they are
\* constructed.
RECURSIVE BuildLoop(_, _, _, _, _, _)
BuildLoop(reg, ordered, j, parallel_agents, active_agents, env) ==
    IF j > Len(ordered)
    THEN [error |-> NoError, parallel_agents |-> parallel_agents, env |-> env]
    ELSE IF HasKey(parallel_agents, ordered[j])
    THEN BuildLoop(reg, ordered, j + 1, parallel_agents, active_agents, env)
    ELSE LET agent_data == Lookup(reg, ordered[j])
             fo == FanOutAgents(agent_data.fan_out, 1, parallel_agents,
                                active_agents, <<>>)
             f == GetModelFactory(env, agent_data.model, NoRequestParams)
         IN  IF fo.error # NoError
             THEN [error |-> fo.error, parallel_agents |-> parallel_agents,
                   env |-> env]
             ELSE IF ~HasKey(active_agents, agent_data.fan_in)
             THEN [error |-> KeyError(agent_data.fan_in),
                   parallel_agents |-> parallel_agents, env |-> env]
             ELSE BuildLoop(reg, ordered, j + 1,
                      Append(parallel_agents,
                             [name |-> ordered[j], type |-> PARALLEL,
                              instruction |-> agent_data.instruction,
                              llm |-> f.factory,
                              fan_out_agents |-> fo.agents,
                              fan_in_agent |-> agent_data.fan_in]),
                      active_agents, f.env)

\* What one walk started by the builder did.
Call(name, visited, r) ==
    [root |-> name, visited |-> visited, error |-> r.error, deps |-> r.deps,
     path |-> r.path, closing |-> r.closing, stack |-> r.stack]

NotRaised == [kind |-> NULL, root |-> NULL, path |-> {}, name |-> NULL]

\* The loop of _create_parallel_agents over parallel_names, from the i-th
\* name on.  st carries visited, parallel_agents, env and what has been
\* observed so far: calls, the walks made, and order, the lists they
\* returned one after the other.  The result adds raised, what ended the
\* loop early: "circular" with the walk's path and the name that closed the
\* cycle, "walk" for another error of the walk, "build" for a KeyError of
\* the build, each with the name the error is about.
RECURSIVE RootLoop(_, _, _, _, _)
RootLoop(reg, names, i, st, active_agents) ==
    IF i > Len(names)
    THEN [raised |-> NotRaised, st |-> st]
    ELSE IF names[i] \in st.visited
    THEN RootLoop(reg, names, i + 1, st, active_agents)
    ELSE LET r == GetParallelDependencies(reg, names[i], st.visited, {})
             cs == Append(st.calls, Call(names[i], st.visited, r))
         IN  IF r.error # NULL
             THEN [raised |-> [kind |-> IF r.error = "circular"
                                        THEN "circular" ELSE "walk",
                               root |-> names[i], path |-> r.path,
                               name |-> r.closing],
                   st |-> [st EXCEPT !.calls = cs, !.visited = r.visited]]
             ELSE LET b == BuildLoop(reg, r.deps, 1, st.parallel_agents,
                                     active_agents, st.env)
                      st2 == [visited |-> r.visited,
                              parallel_agents |-> b.parallel_agents,
                              calls |-> cs,
                              order |-> st.order \o r.deps,
                              env |-> b.env]
                  IN  IF b.error # NoError
                      THEN [raised |-> [kind |-> "build", root |-> names[i],
                                        path |-> {}, name |-> b.error.msg[1]],
                            st |-> st2]
                      ELSE RootLoop(reg, names, i + 1, st2, active_agents)

\* _create_parallel_agents(agent_app, active_agents), parallel_names being
\* the list given.
CreateParallelAgents(reg, parallel_names, active_agents, env) ==
    RootLoop(reg, parallel_names, 1,
             [visited |-> {}, parallel_agents |-> <<>>, calls |-> <<>>,
              order |-> <<>>, env |-> env],
             active_agents)

\* The names of the QualityRating enumeration.
QualityRatings == {"POOR", "FAIR", "GOOD", "EXCELLENT"}

\* The ValueError of _create_evaluator_optimizers, as the words of its
\* text: "Missing agents for workflow {name}: optimizer={optimizer},
\* evaluator={evaluator}".
MissingAgents(agent_data) ==
    [type |-> "ValueError",
     msg |-> <<"Missing agents for workflow", agent_data.name,
               agent_data.optimizer, agent_data.evaluator>>]

\* What the loop over the evaluator-optimizer entries gave: the exception
\* that ended it, the workflows constructed, and the names of the entries
\* whose construction was begun.
EvaluatorOptimizers(error, workflows, attempted, env) ==
    [error |-> error, workflows |-> workflows, attempted |-> attempted,
     env |-> env]

RECURSIVE CreateEvaluatorOptimizers(_, _, _, _, _, _)

\* The loop that passes over an entry whose optimizer or evaluator is
\* missing instead of raising.
CreateEvaluatorOptimizersSkipMissing(reg, i, active_agents, env, workflows, attempted) ==
    IF i > Len(reg)
    THEN EvaluatorOptimizers(NoError, workflows, attempted, env)
    ELSE IF reg[i].type # EVALUATOR_OPTIMIZER
    THEN CreateEvaluatorOptimizers(reg, i + 1, active_agents, env, workflows,
                                   attempted)
    ELSE IF \/ ~HasKey(active_agents, reg[i].optimizer)
            \/ ~HasKey(active_agents, reg[i].evaluator)
    THEN CreateEvaluatorOptimizers(reg, i + 1, active_agents, env, workflows,
                                   Append(attempted, reg[i].name))
    ELSE IF reg[i].min_rating \notin QualityRatings
    THEN EvaluatorOptimizers(KeyError(reg[i].min_rating), workflows,
                             Append(attempted, reg[i].name), env)
    ELSE LET f == GetModelFactory(env, Lookup(reg, reg[i].optimizer).model,
                                  NoRequestParams)
         IN  CreateEvaluatorOptimizers(reg, i + 1, active_agents, f.env,
                 Append(workflows,
                        [name |-> reg[i].name, type |-> EVALUATOR_OPTIMIZER,
                         optimizer |-> reg[i].optimizer,
                         evaluator |-> reg[i].evaluator,
                         min_rating |-> reg[i].min_rating,
                         max_refinements |-> reg[i].max_refinements,
                         llm |-> f.factory]),
                 Append(attempted, reg[i].name))

\* The loop that does not hand max_refinements on, so that the workflow
\* takes 3, its default.
CreateEvaluatorOptimizersDefaultRefinements(reg, i, active_agents, env, workflows, attempted) ==
    IF i > Len(reg)
    THEN EvaluatorOptimizers(NoError, workflows, attempted, env)
    ELSE IF reg[i].type # EVALUATOR_OPTIMIZER
    THEN CreateEvaluatorOptimizers(reg, i + 1, active_agents, env, workflows,
                                   attempted)
    ELSE IF \/ ~HasKey(active_agents, reg[i].optimizer)
            \/ ~HasKey(active_agents, reg[i].evaluator)
    THEN EvaluatorOptimizers(MissingAgents(reg[i]), workflows,
                             Append(attempted, reg[i].name), env)
    ELSE IF reg[i].min_rating \notin QualityRatings
    THEN EvaluatorOptimizers(KeyError(reg[i].min_rating), workflows,
                             Append(attempted, reg[i].name), env)
    ELSE LET f == GetModelFactory(env, Lookup(reg, reg[i].optimizer).model,
                                  NoRequestParams)
         IN  CreateEvaluatorOptimizers(reg, i + 1, active_agents, f.env,
                 Append(workflows,
                        [name |-> reg[i].name, type |-> EVALUATOR_OPTIMIZER,
                         optimizer |-> reg[i].optimizer,
                         evaluator |-> reg[i].evaluator,
                         min_rating |-> reg[i].min_rating,
                         max_refinements |-> 3,
                         llm |-> f.factory]),
                 Append(attempted, reg[i].name))

\* _create_evaluator_optimizers(agent_app, active_agents), from the i-th
\* entry of self.agents on: optimizer and evaluator are looked up with
\* active_agents.get, and a missing one raises ValueError; the optimizer,
\* an Agent, gives the model of the factory; a min_rating that is no name
\* of QualityRating raises KeyError.
CreateEvaluatorOptimizers(reg, i, active_agents, env, workflows, attempted) ==
    IF i > Len(reg)
    THEN EvaluatorOptimizers(NoError, workflows, attempted, env)
    ELSE IF reg[i].type # EVALUATOR_OPTIMIZER
    THEN CreateEvaluatorOptimizers(reg, i + 1, active_agents, env, workflows,
                                   attempted)
    ELSE IF \/ ~HasKey(active_agents, reg[i].optimizer)
            \/ ~HasKey(active_agents, reg[i].evaluator)
    THEN EvaluatorOptimizers(MissingAgents(reg[i]), workflows,
                             Append(attempted, reg[i].name), env)
    ELSE IF reg[i].min_rating \notin QualityRatings
    THEN EvaluatorOptimizers(KeyError(reg[i].min_rating), workflows,
                             Append(attempted, reg[i].name), env)
    ELSE LET f == GetModelFactory(env, Lookup(reg, reg[i].optimizer).model,
                                  NoRequestParams)
         IN  CreateEvaluatorOptimizers(reg, i + 1, active_agents, f.env,
                 Append(workflows,
                        [name |-> reg[i].name, type |-> EVALUATOR_OPTIMIZER,
                         optimizer |-> reg[i].optimizer,
                         evaluator |-> reg[i].evaluator,
                         min_rating |-> reg[i].min_rating,
                         max_refinements |-> reg[i].max_refinements,
                         llm |-> f.factory]),
                 Append(attempted, reg[i].name))

\* What the four stages of the build gave, put together: b of the basic
\* agents, o of the orchestrators, p of the parallel agents and e of the
\* evaluator-optimizer workflows.
BuildResult(b, o, p, e) ==
    [reg |-> b.reg, env |-> e.env, raised |-> p.raised,
     calls |-> p.st.calls, order |-> p.st.order,
     active_agents |-> b.active_agents,
     orchestrators |-> o,
     parallel_agents |-> p.st.parallel_agents,
     evaluator_optimizers |-> e]

\* evaluator_optimizers = self._create_evaluator_optimizers(agent_app,
\* active_agents), reached when nothing was raised before it.
BuildEvaluatorOptimizers(b, o, p) ==
    BuildResult(b, o, p,
        IF o.error = NoError /\ p.raised = NotRaised
        THEN CreateEvaluatorOptimizers(b.reg, 1, b.active_agents, p.st.env,
                                       <<>>, <<>>)
        ELSE EvaluatorOptimizers(NoError, <<>>, <<>>, p.st.env))

\* parallel_agents = self._create_parallel_agents(agent_app,
\* active_agents), reached when the orchestrators raised nothing.
BuildParallelAgents(b, o, parallel_names) ==
    BuildEvaluatorOptimizers(b, o,
        CreateParallelAgents(b.reg,
                             IF o.error = NoError THEN parallel_names
                             ELSE <<>>,
                             b.active_agents, o.env))

\* orchestrators = self._create_orchestrators(agent_app, active_agents).
BuildOrchestrators(b, parallel_names) ==
    BuildParallelAgents(b,
        CreateOrchestrators(b.reg, 1, b.active_agents, b.env, <<>>, <<>>),
        parallel_names)

\* The build of run(): the basic agents, then the orchestrators, the
\* parallel agents and the evaluator-optimizer workflows, each stage
\* reached when the stages before it have raised nothing.
Build(reg, env, parallel_names) ==
    BuildOrchestrators(CreateBasicAgents(reg, 1, env, <<>>), parallel_names)

\* The error of the walk raised again without the text of the walk's error.
ReraiseWithoutCause(name, e) ==
    [type |-> "ValueError", msg |-> <<"Error creating parallel agent", name>>]

\* except ValueError as e: raise ValueError(f"Error creating parallel agent
\* {name}: {str(e)}").
Reraise(name, e) ==
    [type |-> "ValueError",
     msg |-> <<"Error creating parallel agent", name>> \o e.msg]

\* The exception the walk raised, path_order being the order in which its
\* iteration over path went.
WalkError(raised, path_order) ==
    IF raised.kind = "circular"
    THEN [type |-> "ValueError",
          msg |-> CircularMessage(path_order, raised.name)]
    ELSE IF raised.kind = "walk" THEN KeyError(raised.name)
    ELSE NoError

\* The exception that leaves _create_parallel_agents and run(): a
\* ValueError of the walk is caught and raised again, any other error
\* passes.
RunError(raised, path_order) ==
    IF raised.kind = "circular"
    THEN Reraise(raised.root, WalkError(raised, path_order))
    ELSE IF raised.kind \in {"walk", "build"} THEN KeyError(raised.name)
    ELSE NoError

\* The outcome that hands out the agents constructed so far when the
\* build raises.
RunOutcomePartial(b, path_order) ==
    [ran |-> TRUE,
     error |-> IF b.orchestrators.error # NoError
               THEN b.orchestrators.error
               ELSE IF b.raised # NotRaised
               THEN RunError(b.raised, path_order)
               ELSE b.evaluator_optimizers.error,
     walkError |-> WalkError(b.raised, path_order),
     calls |-> b.calls, order |-> b.order,
     active_agents |-> b.active_agents,
     orchestrators |-> b.orchestrators.orchestrators,
     orchestrators_attempted |-> b.orchestrators.attempted,
     parallel_agents |-> b.parallel_agents,
     evaluator_optimizers |-> b.evaluator_optimizers.workflows,
     attempted |-> b.evaluator_optimizers.attempted,
     registry |-> b.reg,
     agents |-> b.active_agents \o b.orchestrators.orchestrators
                \o b.parallel_agents
                \o b.evaluator_optimizers.workflows]

\* What a call of run() gave, up to its yield: agents is the mapping the
\* wrapper is given, and no wrapper is made when the build raises.
RunOutcome(b, path_order) ==
    [ran |-> TRUE,
     error |-> IF b.orchestrators.error # NoError
               THEN b.orchestrators.error
               ELSE IF b.raised # NotRaised
               THEN RunError(b.raised, path_order)
               ELSE b.evaluator_optimizers.error,
     walkError |-> WalkError(b.raised, path_order),
     calls |-> b.calls, order |-> b.order,
     active_agents |-> b.active_agents,
     orchestrators |-> b.orchestrators.orchestrators,
     orchestrators_attempted |-> b.orchestrators.attempted,
     parallel_agents |-> b.parallel_agents,
     evaluator_optimizers |-> b.evaluator_optimizers.workflows,
     attempted |-> b.evaluator_optimizers.attempted,
     registry |-> b.reg,
     agents |-> IF b.orchestrators.error = NoError
                   /\ b.raised = NotRaised
                   /\ b.evaluator_optimizers.error = NoError
                THEN b.active_agents \o b.orchestrators.orchestrators
                     \o b.parallel_agents
                     \o b.evaluator_optimizers.workflows
                ELSE <<>>]

----------------------------------------------------------------------------
\* MCPApp (src/src/mcp_agent/app.py).  app is the application object:
\* _context, _initialized and _workflows.  A Context is known by the number
\* initialize_context gave it, NoContext being None.  procs is where each
\* asyncio task stands; world is what lies outside the application object:
\* the calls made, the contexts created and shut down, the task registry
\* of each context and the attributes set on the callables; obs keeps what
\* the last calls gave.

\* self._context = None.
NoContext == 0

\* The asyncio tasks that use the application.
Tasks == {"t1", "t2"}

\* The callables handed to workflow_task: f is a coroutine function, g is
\* not.
Funcs == {"f", "g"}

\* These and h, another coroutine function.
TaskFuncs == Funcs \cup {"h"}

IsCoroutineFunction(func) == func # "g"

NoCall == [happened |-> FALSE]

\* A task that is in no call of the application: op is the method it
\* called (run, initialize or cleanup), reason how the body of its run
\* scope ended, pending the Context its call of initialize_context is
\* making.
Idle == [pc |-> "idle", op |-> NULL, reason |-> NULL, pending |-> NoContext]

\* A timedelta, kept as its seconds; NoTimedelta is None.
NoTimedelta == [none |-> TRUE, seconds |-> 0]

Timedelta(seconds) == [none |-> FALSE, seconds |-> seconds]

\* A dict, kept as the set of its items; NoDict is None.
NoDict == [none |-> TRUE, items |-> {}]

Dict(items) == [none |-> FALSE, items |-> items]

\* The metadata dict of workflow_task; NoMetadata where there is none.
Metadata(activity_name, schedule_to_close_timeout, retry_policy) ==
    [activity_name |-> activity_name,
     schedule_to_close_timeout |-> schedule_to_close_timeout,
     retry_policy |-> retry_policy]

NoMetadata == Metadata(NULL, NoTimedelta, {})

\* The attributes workflow_task sets on a callable; Unmarked is a callable
\* that has neither.
Unmarked == [is_workflow_task |-> FALSE, execution_metadata |-> NoMetadata]

\* A class as workflow() returns it: the class itself, or the class
\* wrapped by the workflow definition decorator of the engine.
Class(cls) == [cls |-> cls, wrapped_by |-> NULL]

\* The argument lists and the results of the run methods handed to
\* workflow_run, and the run methods as functions of their arguments.
Args == {"a1", "a2"}

Results == {"r1", "r2"}

Fns == [Args -> Results]

\* The run methods handed to workflow_run: one whose result depends on its
\* arguments and one whose result does not.
RunMethods == {[args \in Args |-> IF args = "a1" THEN "r1" ELSE "r2"],
               [args \in Args |-> "r2"]}

NoFn == [a \in Args |-> NULL]

\* What the last call of a registration method or of the context property
\* gave; NoRegistration before any.
NoRegistration ==
    [happened |-> FALSE, op |-> NULL, error |-> NULL, context |-> NoContext,
     func |-> NULL, schedule_to_close_timeout |-> NoTimedelta,
     retry_policy |-> NoDict, metadata |-> NoMetadata,
     cls |-> NULL, result |-> Class(NULL), fn |-> NoFn, wrapper |-> NoFn]

\* What lies outside the application object when the program starts,
\* engine being config.execution_engine.  task_registry is the registry
\* reached through context.task_registry.
World(engine) ==
    [calls |-> 0, inits |-> 0, teardowns |-> 0, torn |-> {},
     engine |-> engine, task_registry |-> {},
     attrs |-> [func \in Funcs |-> Unmarked], _app |-> {}]

AppInit ==
    /\ app = [_context |-> NoContext, _initialized |-> FALSE, _workflows |-> {}]
    /\ procs = [t \in Tasks |-> Idle]
    /\ world = World("asyncio")
    /\ obs = [enter |-> NoCall, exit |-> NoCall, cleanup |-> NoCall,
              call |-> NoRegistration]

----------------------------------------------------------------------------
\* What is called on the agents built and on prompt messages.  wrapper is
\* an AgentAppWrapper: agents, the mapping it was made with, kept as the
\* sequence of its values in insertion order, and sent, what the last call
\* of send() gave.  exec is the workflow in execution.  prompt holds the
\* prompt messages given to a conversion and what the conversions gave.

\* No call of send() made.
NoSend ==
    [happened |-> FALSE, agent_name |-> NULL, message |-> NULL,
     error |-> NoError, calls |-> <<>>, result |-> <<>>]

\* No workflow in execution.
NoExec ==
    [kind |-> NULL, node |-> NULL, pc |-> "idle", fan_out |-> <<>>,
     pending |-> {}, completed |-> <<>>, fan_in_input |-> <<>>,
     min_rating |-> NULL, max_refinements |-> 0, ratings |-> <<>>,
     met |-> FALSE]

\* The prompt messages before any conversion.
NoPrompt ==
    [messages |-> <<>>, multipart |-> <<>>, flattened |-> <<>>,
     converted |-> {}]

\* get_settings() not called yet: _settings = None.
NoSettings == [_settings |-> NULL]

\* No run scope of the decorator interface entered.
NoScope ==
    [pc |-> "idle", events |-> <<>>, mapping |-> <<>>, i |-> 1,
     reason |-> NULL]

CallInit ==
    /\ wrapper = [agents |-> <<>>, sent |-> NoSend]
    /\ exec = NoExec
    /\ prompt = NoPrompt
    /\ settings = NoSettings
    /\ scope = NoScope

----------------------------------------------------------------------------
\* State: agents is self.agents; default_model is
\* context.config.default_model and args_model self.args.model; phase is
\* where the calling program is (declaring, or past its first run());
\* lastRun and prevRun are what the last two calls of run() gave; log
\* lists the declarations made, where a specification records them.

\* run() not called yet.
NoRun ==
    [ran |-> FALSE, error |-> NoError, walkError |-> NoError, calls |-> <<>>,
     order |-> <<>>, active_agents |-> <<>>, orchestrators |-> <<>>,
     orchestrators_attempted |-> <<>>, parallel_agents |-> <<>>,
     evaluator_optimizers |-> <<>>, attempted |-> <<>>, registry |-> <<>>,
     agents |-> <<>>]

\* Settings.default_model when the config file does not set it.
BaselineDefaultModel == "haiku"

TypeOK ==
    /\ phase \in {"declare", "run"}
    /\ \A i \in 1..Len(agents) : agents[i].name \in Names
    /\ NoDuplicates([i \in 1..Len(agents) |-> agents[i].name])

Init ==
    /\ agents = <<>>
    /\ default_model = BaselineDefaultModel
    /\ args_model = NULL
    /\ phase = "declare"
    /\ lastRun = NoRun
    /\ prevRun = NoRun
    /\ log = <<>>
    /\ AppInit
    /\ CallInit

\* The decorator of agent(name, instruction, model=model) applied.
DeclareAgent(name, instruction, model) ==
    /\ phase = "declare"
    /\ agents' = DictSet(agents, BasicEntry(name, instruction, model))
    /\ UNCHANGED <<default_model, args_model, phase, lastRun, prevRun>>

\* The decorator of parallel(name, fan_in, fan_out, instruction,
\* model=model) applied.
DeclareParallel(name, fan_in, fan_out, instruction, model) ==
    /\ phase = "declare"
    /\ Len(fan_out) + FanOutRefs(agents, name, 1) <= MaxFanOutRefs
    /\ agents' = DictSet(agents,
                     ParallelEntry(name, fan_in, fan_out, instruction, model))
    /\ UNCHANGED <<default_model, args_model, phase, lastRun, prevRun>>

\* The decorator of orchestrator(name, instruction, agents, model=model)
\* applied.
DeclareOrchestrator(name, instruction, child_agents, model) ==
    /\ phase = "declare"
    /\ agents' = DictSet(agents,
                     OrchestratorEntry(name, instruction, child_agents, model))
    /\ UNCHANGED <<default_model, args_model, phase, lastRun, prevRun>>

\* The decorator of evaluator_optimizer(name, optimizer, evaluator,
\* min_rating, max_refinements) applied.
DeclareEvaluatorOptimizer(name, optimizer, evaluator, min_rating, max_refinements) ==
    /\ phase = "declare"
    /\ agents' = DictSet(agents,
                     EvaluatorOptimizerEntry(name, optimizer, evaluator,
                                             min_rating, max_refinements))
    /\ UNCHANGED <<default_model, args_model, phase, lastRun, prevRun>>

\* async with fast.run(): the build.
Run ==
    /\ \E parallel_names \in ParallelNames(agents) :
          \E b \in {Build(agents,
                           [default_model |-> default_model,
                            args_model |-> args_model], parallel_names)} :
              /\ agents' = b.reg
              /\ default_model' = b.env.default_model
              /\ args_model' = b.env.args_model
              /\ \E path_order \in SetIterOrders(b.raised.path) :
                    lastRun' = RunOutcome(b, path_order)
    /\ prevRun' = lastRun
    /\ phase' = "run"
    /\ UNCHANGED log

\* The walk and the builder on every registry: each name is declared at
\* most once, and the program runs.
NextOrder ==
    \/ \E name \in Names :
          /\ ~HasKey(agents, name)
          /\ DeclareAgent(name, "i1", NULL)
          /\ UNCHANGED <<log, appVars, callVars>>
    \/ \E name \in Names, fan_in \in FanIns :
          \E fan_out \in SeqsUpTo(Names, MaxFanOutRefs - FanOutRefs(agents, name, 1)) :
             /\ ~HasKey(agents, name)
             /\ DeclareParallel(name, fan_in, fan_out, "", NULL)
             /\ UNCHANGED <<log, appVars, callVars>>
    \/ Run /\ UNCHANGED <<appVars, callVars>>

SpecOrder == Init /\ [][NextOrder]_vars

----------------------------------------------------------------------------
\* Declarations under names already taken.  log lists the calls of the
\* decorators in the order they were made, each as its arguments.

\* Bound: the number of declarations the program makes.
MaxDecls == 3

\* The names and the fan_out lists these declarations draw from.
DeclNames == {"A", "C"}

DeclFanOuts == {<<>>, <<"C">>}

Declared(kind, name, instruction, fan_in, fan_out) ==
    [kind |-> kind, name |-> name, instruction |-> instruction,
     fan_in |-> fan_in, fan_out |-> fan_out]

Next ==
    \/ \E name \in DeclNames, instruction \in Instructions :
          /\ Len(log) < MaxDecls
          /\ DeclareAgent(name, instruction, NULL)
          /\ log' = Append(log, Declared(BASIC, name, instruction, NULL, <<>>))
          /\ UNCHANGED <<appVars, callVars>>
    \/ \E name \in DeclNames, instruction \in Instructions :
          \E fan_in \in FanIns, fan_out \in DeclFanOuts :
             /\ Len(log) < MaxDecls
             /\ DeclareParallel(name, fan_in, fan_out, instruction, NULL)
             /\ log' = Append(log, Declared(PARALLEL, name, instruction,
                                            fan_in, fan_out))
             /\ UNCHANGED <<appVars, callVars>>
    \/ Run /\ UNCHANGED <<appVars, callVars>>

Spec == Init /\ [][Next]_vars

----------------------------------------------------------------------------
\* The resolution of the model under every configuration: the config's
\* default_model (a string, or None when the file sets it to null), the
\* command line's --model (None when not given) and the decorators' model.

DefaultModels == {BaselineDefaultModel, "sonnet", NULL}

ArgsModels == {NULL, "", "opus"}

Models == {NULL, "", "gpt-4o"}

InitParams ==
    /\ agents = <<>>
    /\ default_model \in DefaultModels
    /\ args_model \in ArgsModels
    /\ phase = "declare"
    /\ lastRun = NoRun
    /\ prevRun = NoRun
    /\ log = <<>>
    /\ AppInit
    /\ CallInit

NextParams ==
    \/ \E name \in DeclNames, model \in Models :
          /\ ~HasKey(agents, name)
          /\ DeclareAgent(name, "i1", model)
          /\ UNCHANGED <<log, appVars, callVars>>
    \/ \E name \in DeclNames, model \in Models :
          \E fan_in \in FanIns, fan_out \in DeclFanOuts :
             /\ ~HasKey(agents, name)
             /\ DeclareParallel(name, fan_in, fan_out, "", model)
             /\ UNCHANGED <<log, appVars, callVars>>
    \/ Run /\ UNCHANGED <<appVars, callVars>>

SpecParams == InitParams /\ [][NextParams]_vars

----------------------------------------------------------------------------
\* The life cycle of MCPApp: initialize(), cleanup() and run(), called by
\* asyncio tasks.  A task runs alone from one await to the next; the
\* awaits of initialize() and cleanup() are those of initialize_context
\* and cleanup_context, at which another task may run.

\* Bound: the calls of run(), initialize() and cleanup() the tasks make.
MaxCalls == 3

\* How the await of initialize_context can end: with a Context, or with an
\* exception (a CancelledError of the task among them).
InitOutcomes == {"returned", "raised"}

\* How the await of cleanup_context can end: normally, with the
\* CancelledError of a cancelled task, or with another exception.
TeardownOutcomes == {"returned", "cancelled", "raised"}

\* How the body of "async with app.run()" can end: normally, with an
\* exception, or with the CancelledError of a cancelled task.
ExitReasons == {"normal", "error", "cancelled"}

\* The tasks inside the body of a run scope or in its cleanup.
InScope(ps) ==
    {t \in Tasks : ps[t].op = "run" /\ ps[t].pc \in {"body", "cleanup_await"}}

\* What the entry of task t into the body of a run scope saw: the Context
\* of the application, whether cleanup_context had been called on it
\* before, the workflows registered, and whether the entry came after a
\* scope had been left with no scope open.
Entered(t) ==
    [happened |-> TRUE, task |-> t, context |-> app'._context,
     torn |-> app'._context \in world.torn,
     _workflows |-> app._workflows,
     after_exit |-> obs.exit.happened /\ InScope(procs) = {}]

\* initialize() setting _initialized before its await instead of after it.
InitializeCallFlagFirst(t, op) ==
    /\ procs[t].pc = "idle"
    /\ world.calls < MaxCalls
    /\ IF app._initialized
       THEN /\ procs' = [procs EXCEPT ![t] =
                           IF op = "run"
                           THEN [Idle EXCEPT !.pc = "body", !.op = "run"]
                           ELSE Idle]
            /\ world' = [world EXCEPT !.calls = @ + 1]
            /\ app' = app
            /\ obs' = IF op = "run" THEN [obs EXCEPT !.enter = Entered(t)]
                      ELSE obs
       ELSE /\ procs' = [procs EXCEPT ![t] =
                           [Idle EXCEPT !.pc = "init_await", !.op = op,
                                        !.pending = world.inits + 1]]
            /\ world' = [world EXCEPT !.calls = @ + 1, !.inits = @ + 1]
            /\ app' = [app EXCEPT !._initialized = TRUE]
            /\ UNCHANGED obs

\* initialize() from its first line to its await, called by task t as
\* initialize() or as the first statement of run(): it returns at once
\* when _initialized is set, and else calls initialize_context.
InitializeCall(t, op) ==
    /\ procs[t].pc = "idle"
    /\ world.calls < MaxCalls
    /\ IF app._initialized
       THEN /\ procs' = [procs EXCEPT ![t] =
                           IF op = "run"
                           THEN [Idle EXCEPT !.pc = "body", !.op = "run"]
                           ELSE Idle]
            /\ world' = [world EXCEPT !.calls = @ + 1]
            /\ app' = app
            /\ obs' = IF op = "run" THEN [obs EXCEPT !.enter = Entered(t)]
                      ELSE obs
       ELSE /\ procs' = [procs EXCEPT ![t] =
                           [Idle EXCEPT !.pc = "init_await", !.op = op,
                                        !.pending = world.inits + 1]]
            /\ world' = [world EXCEPT !.calls = @ + 1, !.inits = @ + 1]
            /\ UNCHANGED <<app, obs>>

\* initialize() from its await on: the Context is stored and _initialized
\* set; an exception of initialize_context leaves initialize(), and run()
\* before its try.
InitializeResume(t, outcome) ==
    /\ procs[t].pc = "init_await"
    /\ IF outcome = "returned"
       THEN /\ app' = [app EXCEPT !._context = procs[t].pending,
                                  !._initialized = TRUE]
            /\ procs' = [procs EXCEPT ![t] =
                           IF procs[t].op = "run"
                           THEN [Idle EXCEPT !.pc = "body", !.op = "run"]
                           ELSE Idle]
            /\ obs' = IF procs[t].op = "run"
                      THEN [obs EXCEPT !.enter = Entered(t)]
                      ELSE obs
       ELSE /\ procs' = [procs EXCEPT ![t] = Idle]
            /\ UNCHANGED <<app, obs>>
    /\ UNCHANGED world

\* What a call of cleanup() gave when it ended: whether it called
\* cleanup_context and how that ended, whether the call raised, and the
\* application as the call left it.
CleanedUp(t, outcome, a) ==
    [happened |-> TRUE, task |-> t, outcome |-> outcome,
     raised |-> outcome = "raised",
     _initialized |-> a._initialized, _context |-> a._context]

\* What the exit of task t from its run scope gave: the reason the body
\* ended, what left run() (the reason, or the exception of cleanup), the
\* calls of cleanup_context made, and the application after the exit.
Exited(t, reason, outcome, a) ==
    [happened |-> TRUE, task |-> t, reason |-> reason,
     propagated |-> IF outcome = "raised" THEN "teardown_error" ELSE reason,
     teardowns |-> IF outcome = NULL THEN 0 ELSE 1,
     _initialized |-> a._initialized, _context |-> a._context]

\* cleanup() from its first line to its await, called by task t as
\* cleanup() or in the finally of run(): it returns at once when
\* _initialized is not set, and else calls cleanup_context.
CleanupCall(t, op, reason) ==
    IF ~app._initialized
    THEN /\ procs' = [procs EXCEPT ![t] = Idle]
         /\ obs' = [obs EXCEPT
                       !.cleanup = CleanedUp(t, NULL, app),
                       !.exit = IF op = "run" THEN Exited(t, reason, NULL, app)
                                ELSE @]
         /\ UNCHANGED <<app, world>>
    ELSE /\ procs' = [procs EXCEPT ![t] =
                        [Idle EXCEPT !.pc = "cleanup_await", !.op = op,
                                     !.reason = reason]]
         /\ world' = [world EXCEPT !.teardowns = @ + 1,
                                   !.torn = @ \cup {app._context}]
         /\ UNCHANGED <<app, obs>>

\* app.initialize().
CallInitialize(t) == InitializeCall(t, "initialize")

\* async with app.run(): entered.
EnterRun(t) == InitializeCall(t, "run")

\* The body of the run scope ends and the finally calls cleanup().
ExitBody(t, reason) ==
    /\ procs[t].pc = "body"
    /\ CleanupCall(t, "run", reason)

\* app.cleanup().
CallCleanup(t) ==
    /\ procs[t].pc = "idle"
    /\ world.calls < MaxCalls
    /\ LET counted == [world EXCEPT !.calls = @ + 1]
       IN  IF ~app._initialized
           THEN /\ CleanupCall(t, "cleanup", NULL)
                /\ world' = counted
           ELSE /\ procs' = [procs EXCEPT ![t] =
                               [Idle EXCEPT !.pc = "cleanup_await",
                                            !.op = "cleanup"]]
                /\ world' = [counted EXCEPT !.teardowns = @ + 1,
                                            !.torn = @ \cup {app._context}]
                /\ UNCHANGED <<app, obs>>

\* cleanup() from its await on: a CancelledError is caught, and then as
\* after a normal return _context and _initialized are reset; another
\* exception leaves cleanup() before the two assignments.
CleanupResume(t, outcome) ==
    /\ procs[t].pc = "cleanup_await"
    /\ LET a == IF outcome = "raised" THEN app
                ELSE [app EXCEPT !._context = NoContext,
                                 !._initialized = FALSE]
       IN  /\ app' = a
           /\ obs' = [obs EXCEPT
                         !.cleanup = CleanedUp(t, outcome, a),
                         !.exit = IF procs[t].op = "run"
                                  THEN Exited(t, procs[t].reason, outcome, a)
                                  ELSE @]
    /\ procs' = [procs EXCEPT ![t] = Idle]
    /\ UNCHANGED world

NextApp ==
    \/ \E t \in Tasks : CallInitialize(t) /\ UNCHANGED <<declVars, callVars>>
    \/ \E t \in Tasks : EnterRun(t) /\ UNCHANGED <<declVars, callVars>>
    \/ \E t \in Tasks, outcome \in InitOutcomes :
          InitializeResume(t, outcome) /\ UNCHANGED <<declVars, callVars>>
    \/ \E t \in Tasks, reason \in ExitReasons :
          ExitBody(t, reason) /\ UNCHANGED <<declVars, callVars>>
    \/ \E t \in Tasks : CallCleanup(t) /\ UNCHANGED <<declVars, callVars>>
    \/ \E t \in Tasks, outcome \in TeardownOutcomes :
          CleanupResume(t, outcome) /\ UNCHANGED <<declVars, callVars>>

SpecApp == Init /\ [][NextApp]_vars

----------------------------------------------------------------------------
\* The registration methods of MCPApp and its context property, called by
\* the program at any time: they have no await.

\* config.execution_engine.
Engines == {"asyncio", "temporal"}

\* The classes and the ids handed to workflow().
Classes == {"W1"}

WorkflowIds == {NULL, "W2"}

\* The arguments handed to workflow_task().
TaskNames == {NULL}

Timeouts == {NoTimedelta, Timedelta(0), Timedelta(30)}

RetryPolicies == {NoDict, Dict({}), Dict({<<"maximum_attempts", "3">>})}

\* The truth value Python gives a timedelta or None, and a dict or None.
TruthyTimedelta(d) == ~d.none /\ d.seconds # 0

TruthyDict(d) == ~d.none /\ d.items # {}

\* f"{func.__module__}.{func.__qualname__}".
QualName(func) ==
    IF func = "f" THEN "mod.f" ELSE IF func = "h" THEN "mod.h" ELSE "mod.g"

\* A dict kept as the set of its [key, value] pairs: d[key] = value.
DictPut(d, key, value) ==
    {e \in d : e.key # key} \cup {[key |-> key, value |-> value]}

\* decorator_registry.get_workflow_defn_decorator(engine) and
\* get_workflow_run_decorator(engine): none for the asyncio engine, the
\* decorators of the durable backend for the temporal engine.
GetWorkflowDefnDecorator(engine) ==
    IF engine = "asyncio" THEN NULL ELSE "workflow_defn"

GetWorkflowRunDecorator(engine) ==
    IF engine = "asyncio" THEN NULL ELSE "workflow_run"

\* The context property without its test for None.
GetContextUnchecked(a) == [error |-> NULL, context |-> a._context]

\* The context property: RuntimeError when _context is None.
GetContext(a) ==
    [error |-> IF a._context = NoContext THEN "RuntimeError" ELSE NULL,
     context |-> a._context]

\* workflow(cls, workflow_id=workflow_id) on application a in world w.
WorkflowDecorator(a, w, cls, workflow_id) ==
    IF GetContext(a).error # NULL
    THEN [error |-> GetContext(a).error, app |-> a, world |-> w,
          result |-> Class(NULL)]
    ELSE IF GetWorkflowDefnDecorator(w.engine) # NULL
    THEN [error |-> NULL, app |-> a, world |-> w,
          result |-> [cls |-> cls,
                      wrapped_by |-> GetWorkflowDefnDecorator(w.engine)]]
    ELSE [error |-> NULL,
          app |-> [a EXCEPT !._workflows =
                      DictPut(@, IF Truthy(workflow_id) THEN workflow_id
                                 ELSE cls, cls)],
          world |-> [w EXCEPT !._app = @ \cup {cls}],
          result |-> Class(cls)]

\* workflow_run with a wrapper that calls fn and drops what it returns.
WorkflowRunDecoratorNoReturn(a, w, fn, transformed) ==
    IF GetContext(a).error # NULL
    THEN [error |-> GetContext(a).error, wrapper |-> NoFn]
    ELSE IF GetWorkflowRunDecorator(w.engine) # NULL
    THEN [error |-> NULL, wrapper |-> transformed]
    ELSE [error |-> NULL, wrapper |-> [args \in Args |-> NULL]]

\* workflow_run(fn): the callable returned, as a function of its
\* arguments.  transformed is what the run decorator of the engine makes
\* of fn, where the engine has one.
WorkflowRunDecorator(a, w, fn, transformed) ==
    IF GetContext(a).error # NULL
    THEN [error |-> GetContext(a).error, wrapper |-> NoFn]
    ELSE IF GetWorkflowRunDecorator(w.engine) # NULL
    THEN [error |-> NULL, wrapper |-> transformed]
    ELSE [error |-> NULL, wrapper |-> [args \in Args |-> fn[args]]]

\* activity_registry.register(name, func, metadata).
Register(registry, name, func, metadata) ==
    DictPut(registry, name, [func |-> func, metadata |-> metadata])

\* The metadata workflow_task builds from its arguments.
TaskMetadata(name, schedule_to_close_timeout, retry_policy, func) ==
    Metadata(IF Truthy(name) THEN name ELSE QualName(func),
             IF TruthyTimedelta(schedule_to_close_timeout)
             THEN schedule_to_close_timeout ELSE Timedelta(600),
             IF TruthyDict(retry_policy) THEN retry_policy.items ELSE {})

\* workflow_task with the test for a coroutine function made after the
\* registration.
WorkflowTaskDecoratorLateTest(a, w, name, schedule_to_close_timeout, retry_policy, func) ==
    LET metadata == TaskMetadata(name, schedule_to_close_timeout,
                                 retry_policy, func)
        registered ==
            [w EXCEPT !.task_registry =
                         Register(@, metadata.activity_name, func, metadata),
                      !.attrs[func] = [is_workflow_task |-> TRUE,
                                       execution_metadata |-> metadata]]
    IN  IF GetContext(a).error # NULL
        THEN [error |-> GetContext(a).error, world |-> w,
              metadata |-> NoMetadata]
        ELSE IF ~IsCoroutineFunction(func)
        THEN [error |-> "TypeError", world |-> registered,
              metadata |-> NoMetadata]
        ELSE [error |-> NULL, world |-> registered, metadata |-> metadata]

\* workflow_task(name, schedule_to_close_timeout, retry_policy)(func) on
\* application a in world w.
WorkflowTaskDecorator(a, w, name, schedule_to_close_timeout, retry_policy, func) ==
    LET metadata == TaskMetadata(name, schedule_to_close_timeout,
                                 retry_policy, func)
    IN  IF ~IsCoroutineFunction(func)
        THEN [error |-> "TypeError", world |-> w, metadata |-> NoMetadata,
              result |-> NULL]
        ELSE IF GetContext(a).error # NULL
        THEN [error |-> GetContext(a).error, world |-> w,
              metadata |-> NoMetadata, result |-> NULL]
        ELSE [error |-> NULL,
              world |-> [w EXCEPT
                            !.task_registry =
                                Register(@, metadata.activity_name, func,
                                         metadata),
                            !.attrs[func] =
                                [is_workflow_task |-> TRUE,
                                 execution_metadata |-> metadata]],
              metadata |-> metadata, result |-> func]

\* What a call gave, op being the method called.
Registration(op, error) ==
    [NoRegistration EXCEPT !.happened = TRUE, !.op = op, !.error = error,
                           !.context = app._context]

\* app.context.
ContextProperty ==
    /\ obs' = [obs EXCEPT !.call = Registration("context", GetContext(app).error)]
    /\ UNCHANGED <<app, procs, world>>

\* app.workflow(cls, workflow_id=workflow_id).
Workflow(cls, workflow_id) ==
    LET r == WorkflowDecorator(app, world, cls, workflow_id)
    IN  /\ app' = r.app
        /\ world' = r.world
        /\ obs' = [obs EXCEPT !.call =
                      [Registration("workflow", r.error) EXCEPT
                          !.cls = cls, !.result = r.result]]
        /\ UNCHANGED procs

\* app.workflow_run(fn).
WorkflowRun(fn, transformed) ==
    LET r == WorkflowRunDecorator(app, world, fn, transformed)
    IN  /\ obs' = [obs EXCEPT !.call =
                      [Registration("workflow_run", r.error) EXCEPT
                          !.fn = fn, !.wrapper = r.wrapper]]
        /\ UNCHANGED <<app, procs, world>>

\* app.workflow_task(name, schedule_to_close_timeout, retry_policy)(func).
WorkflowTask(name, schedule_to_close_timeout, retry_policy, func) ==
    LET r == WorkflowTaskDecorator(app, world, name,
                                   schedule_to_close_timeout, retry_policy,
                                   func)
    IN  /\ world' = r.world
        /\ obs' = [obs EXCEPT !.call =
                      [Registration("workflow_task", r.error) EXCEPT
                          !.func = func,
                          !.schedule_to_close_timeout =
                              schedule_to_close_timeout,
                          !.retry_policy = retry_policy,
                          !.metadata = r.metadata]]
        /\ UNCHANGED <<app, procs>>

\* The program starts under either engine.
InitTasks ==
    /\ agents = <<>>
    /\ default_model = BaselineDefaultModel
    /\ args_model = NULL
    /\ phase = "declare"
    /\ lastRun = NoRun
    /\ prevRun = NoRun
    /\ log = <<>>
    /\ app = [_context |-> NoContext, _initialized |-> FALSE, _workflows |-> {}]
    /\ procs = [t \in Tasks |-> Idle]
    /\ \E engine \in Engines : world = World(engine)
    /\ obs = [enter |-> NoCall, exit |-> NoCall, cleanup |-> NoCall,
              call |-> NoRegistration]
    /\ CallInit

\* One task enters and leaves run scopes, and the program calls the
\* registration methods inside and outside of them.
NextTasks ==
    \/ EnterRun("t1") /\ UNCHANGED <<declVars, callVars>>
    \/ InitializeResume("t1", "returned") /\ UNCHANGED <<declVars, callVars>>
    \/ ExitBody("t1", "normal") /\ UNCHANGED <<declVars, callVars>>
    \/ \E outcome \in TeardownOutcomes :
          CleanupResume("t1", outcome) /\ UNCHANGED <<declVars, callVars>>
    \/ ContextProperty /\ UNCHANGED <<declVars, callVars>>
    \/ \E cls \in Classes, workflow_id \in WorkflowIds :
          Workflow(cls, workflow_id) /\ UNCHANGED <<declVars, callVars>>
    \/ \E fn \in RunMethods, transformed \in RunMethods :
          WorkflowRun(fn, transformed) /\ UNCHANGED <<declVars, callVars>>
    \/ \E name \in TaskNames, schedule_to_close_timeout \in Timeouts :
          \E retry_policy \in RetryPolicies, func \in Funcs :
             /\ WorkflowTask(name, schedule_to_close_timeout, retry_policy,
                             func)
             /\ UNCHANGED <<declVars, callVars>>

SpecTasks == InitTasks /\ [][NextTasks]_vars

----------------------------------------------------------------------------
\* Run scopes of the decorator interface, one after the other: "async with
\* fast.run()" enters app.run(), builds the agents and yields; leaving it
\* leaves app.run(), whose finally calls cleanup().  The program declares
\* every name at most once, registers workflows inside the scopes and
\* declares agents between them.

\* The names of the declarations made so far.
DeclaredNames == {log[i].name : i \in 1..Len(log)}

\* async with fast.run(): app.run() entered, to the await of initialize().
OpenScope ==
    /\ phase = "declare"
    /\ EnterRun("t1")
    /\ UNCHANGED <<declVars, callVars>>

\* The agents are built inside the scope, and the wrapper is yielded.
BuildInScope ==
    /\ phase = "declare"
    /\ procs["t1"].pc = "body"
    /\ Run
    /\ UNCHANGED <<appVars, callVars>>

\* The body of "async with fast.run()" ends: app.run() is left, to the
\* await of cleanup().
CloseScope ==
    /\ phase = "run"
    /\ ExitBody("t1", "normal")
    /\ phase' = "declare"
    /\ UNCHANGED <<agents, default_model, args_model, lastRun, prevRun, log>>
    /\ UNCHANGED callVars

NextScopes ==
    \/ \E name \in DeclNames :
          /\ name \notin DeclaredNames
          /\ procs["t1"].pc = "idle"
          /\ DeclareAgent(name, "i1", NULL)
          /\ log' = Append(log, Declared(BASIC, name, "i1", NULL, <<>>))
          /\ UNCHANGED <<appVars, callVars>>
    \/ OpenScope
    \/ InitializeResume("t1", "returned") /\ UNCHANGED <<declVars, callVars>>
    \/ BuildInScope
    \/ \E cls \in Classes, workflow_id \in WorkflowIds :
          /\ phase = "run"
          /\ procs["t1"].pc = "body"
          /\ Workflow(cls, workflow_id)
          /\ UNCHANGED <<declVars, callVars>>
    \/ CloseScope
    \/ \E outcome \in {"returned", "cancelled"} :
          CleanupResume("t1", outcome) /\ UNCHANGED <<declVars, callVars>>

SpecScopes == Init /\ [][NextScopes]_vars

\* The decorator of agent(name, instruction, model=model) applied inside
\* the body of "async with fast.run()": the decorator stores the entry
\* whenever it is applied.
DeclareAgentInScope(name, instruction, model) ==
    /\ phase = "run"
    /\ procs["t1"].pc = "body"
    /\ agents' = DictSet(agents, BasicEntry(name, instruction, model))
    /\ UNCHANGED <<default_model, args_model, phase, lastRun, prevRun>>

\* The run scopes of a program that declares agents before its scopes and
\* inside them.
NextRunScope ==
    \/ NextScopes
    \/ \E name \in DeclNames :
          /\ name \notin DeclaredNames
          /\ DeclareAgentInScope(name, "i1", NULL)
          /\ log' = Append(log, Declared(BASIC, name, "i1", NULL, <<>>))
          /\ UNCHANGED <<appVars, callVars>>

SpecRunScope == Init /\ [][NextRunScope]_vars

----------------------------------------------------------------------------
\* The evaluator-optimizer workflows: every name is declared at most once,
\* as a basic agent, as a parallel agent or as an evaluator-optimizer
\* whose optimizer and evaluator are any names, and the program runs.

\* The min_rating arguments the declarations draw from; max_refinements
\* is left at its default.
MinRatings == {"GOOD", "BAD"}

DefaultMaxRefinements == 3

NextWorkflows ==
    \/ \E name \in Names :
          /\ ~HasKey(agents, name)
          /\ DeclareAgent(name, "i1", NULL)
          /\ UNCHANGED <<log, appVars, callVars>>
    \/ \E name \in Names, fan_in \in FanIns, fan_out \in DeclFanOuts :
          /\ ~HasKey(agents, name)
          /\ DeclareParallel(name, fan_in, fan_out, "", NULL)
          /\ UNCHANGED <<log, appVars, callVars>>
    \/ \E name \in Names, optimizer \in Names, evaluator \in Names :
          \E min_rating \in MinRatings :
             /\ ~HasKey(agents, name)
             /\ DeclareEvaluatorOptimizer(name, optimizer, evaluator,
                                          min_rating, DefaultMaxRefinements)
             /\ UNCHANGED <<log, appVars, callVars>>
    \/ Run /\ UNCHANGED <<appVars, callVars>>

SpecWorkflows == Init /\ [][NextWorkflows]_vars

----------------------------------------------------------------------------
\* The composite nodes of every kind: every name is declared at most once,
\* as a basic agent, an orchestrator, a parallel agent or an
\* evaluator-optimizer, and the program runs.

\* The child_agents lists, the fan_out lists and the evaluator names the
\* declarations draw from, and the model string of the orchestrators.
ChildLists == {<<"A">>, <<"A", "B">>}

CompositeFanOuts == {<<>>, <<"A">>, <<"A", "B">>}

Evaluators == {"A"}

OrchestratorModel == "gpt-4o"

NextComposites ==
    \/ \E name \in Names :
          /\ ~HasKey(agents, name)
          /\ DeclareAgent(name, "i1", NULL)
          /\ UNCHANGED <<log, appVars, callVars>>
    \/ \E name \in Names, child_agents \in ChildLists :
          /\ ~HasKey(agents, name)
          /\ DeclareOrchestrator(name, "i1", child_agents, OrchestratorModel)
          /\ UNCHANGED <<log, appVars, callVars>>
    \/ \E name \in Names, fan_in \in FanIns, fan_out \in CompositeFanOuts :
          /\ ~HasKey(agents, name)
          /\ DeclareParallel(name, fan_in, fan_out, "", NULL)
          /\ UNCHANGED <<log, appVars, callVars>>
    \/ \E name \in Names, optimizer \in Names, evaluator \in Evaluators :
          /\ ~HasKey(agents, name)
          /\ DeclareEvaluatorOptimizer(name, optimizer, evaluator, "GOOD",
                                       DefaultMaxRefinements)
          /\ UNCHANGED <<log, appVars, callVars>>
    \/ Run /\ UNCHANGED <<appVars, callVars>>

SpecComposites == Init /\ [][NextComposites]_vars

----------------------------------------------------------------------------
\* The execution of a parallel workflow (ParallelLLM): the fan-out agents
\* the builder handed it run concurrently on the message and complete in
\* any order; when all have completed, the fan-in agent is given their
\* results, one per fan-out agent, in the order of the list.

\* The result the agent called name returns.
ResultOf(name) == [result_of |-> name]

\* The fan_out lists the declarations of this specification draw from.
ParallelFanOuts == {<<"B">>, <<"C">>, <<"B", "C">>, <<"C", "B">>}

\* The workflow called name, among those the wrapper holds, is sent a
\* message: its fan-out agents are started.
StartParallel(name) ==
    /\ phase = "run"
    /\ exec.pc = "idle"
    /\ HasKey(lastRun.agents, name)
    /\ Lookup(lastRun.agents, name).type = PARALLEL
    /\ LET fan_out_agents == Lookup(lastRun.agents, name).fan_out_agents
       IN  exec' = [NoExec EXCEPT !.kind = PARALLEL, !.node = name,
                                  !.pc = "fan_out",
                                  !.fan_out = NamesOf(fan_out_agents),
                                  !.pending = 1..Len(fan_out_agents)]
    /\ UNCHANGED <<declVars, appVars, wrapper, prompt, settings, scope>>

\* The i-th fan-out agent completes.
CompleteFanOut(i) ==
    /\ exec.pc = "fan_out"
    /\ i \in exec.pending
    /\ exec' = [exec EXCEPT !.pending = @ \ {i},
                            !.completed = Append(@, i)]
    /\ UNCHANGED <<declVars, appVars, wrapper, prompt, settings, scope>>

\* All fan-out agents have completed: the fan-in agent is given the
\* results collected.
FanIn ==
    /\ exec.pc = "fan_out"
    /\ exec.pending = {}
    /\ exec' = [exec EXCEPT !.pc = "done",
                   !.fan_in_input = [i \in 1..Len(exec.fan_out) |->
                                        ResultOf(exec.fan_out[i])]]
    /\ UNCHANGED <<declVars, appVars, wrapper, prompt, settings, scope>>

NextParallel ==
    \/ \E name \in Names :
          /\ ~HasKey(agents, name)
          /\ DeclareAgent(name, "i1", NULL)
          /\ UNCHANGED <<log, appVars, callVars>>
    \/ \E name \in Names, fan_in \in FanIns, fan_out \in ParallelFanOuts :
          /\ ~HasKey(agents, name)
          /\ DeclareParallel(name, fan_in, fan_out, "", NULL)
          /\ UNCHANGED <<log, appVars, callVars>>
    \/ Run /\ UNCHANGED <<appVars, callVars>>
    \/ \E name \in Names : StartParallel(name)
    \/ \E i \in 1..MaxFanOutRefs : CompleteFanOut(i)
    \/ FanIn

SpecParallel == Init /\ [][NextParallel]_vars

----------------------------------------------------------------------------
\* The execution of an evaluator-optimizer workflow
\* (EvaluatorOptimizerLLM): in every iteration the optimizer produces a
\* candidate and the evaluator rates it; the loop ends when the rating
\* meets or exceeds min_rating or when max_refinements iterations have
\* been made, whichever comes first.

\* The place of a rating in QualityRating.
RatingOrdinal(rating) ==
    CASE rating = "POOR" -> 0
      [] rating = "FAIR" -> 1
      [] rating = "GOOD" -> 2
      [] rating = "EXCELLENT" -> 3

Meets(rating, min_rating) == RatingOrdinal(rating) >= RatingOrdinal(min_rating)

\* The min_rating and max_refinements arguments the declarations of this
\* specification draw from.
RefineMinRatings == {"FAIR", "GOOD"}

RefineMaxRefinements == {2, 3}

\* The workflow called name, among those the wrapper holds, is sent a
\* message: the loop starts.
StartRefine(name) ==
    /\ phase = "run"
    /\ exec.pc = "idle"
    /\ HasKey(lastRun.agents, name)
    /\ Lookup(lastRun.agents, name).type = EVALUATOR_OPTIMIZER
    /\ LET node == Lookup(lastRun.agents, name)
       IN  exec' = [NoExec EXCEPT !.kind = EVALUATOR_OPTIMIZER,
                                  !.node = name,
                                  !.pc = IF node.max_refinements > 0
                                         THEN "refining" ELSE "done",
                                  !.min_rating = node.min_rating,
                                  !.max_refinements = node.max_refinements]
    /\ UNCHANGED <<declVars, appVars, wrapper, prompt, settings, scope>>

\* One iteration: the evaluator gives the candidate the rating.
Refine(rating) ==
    /\ exec.pc = "refining"
    /\ LET ratings == Append(exec.ratings, rating)
       IN  exec' = [exec EXCEPT
                       !.ratings = ratings,
                       !.met = Meets(rating, exec.min_rating),
                       !.pc = IF Meets(rating, exec.min_rating)
                                 \/ Len(ratings) >= exec.max_refinements
                              THEN "done" ELSE "refining"]
    /\ UNCHANGED <<declVars, appVars, wrapper, prompt, settings, scope>>

NextRefine ==
    \/ \E name \in Names :
          /\ ~HasKey(agents, name)
          /\ DeclareAgent(name, "i1", NULL)
          /\ UNCHANGED <<log, appVars, callVars>>
    \/ \E name \in Names, min_rating \in RefineMinRatings :
          \E max_refinements \in RefineMaxRefinements :
             /\ ~HasKey(agents, name)
             /\ DeclareEvaluatorOptimizer(name, "A", "A", min_rating,
                                          max_refinements)
             /\ UNCHANGED <<log, appVars, callVars>>
    \/ Run /\ UNCHANGED <<appVars, callVars>>
    \/ \E name \in Names : StartRefine(name)
    \/ \E rating \in QualityRatings : Refine(rating)

\* An iteration that has started ends: the optimizer and the evaluator
\* return.
SpecRefine ==
    Init /\ [][NextRefine]_vars
         /\ WF_vars(\E rating \in QualityRatings : Refine(rating))

----------------------------------------------------------------------------
\* AgentAppWrapper.send(agent_name, message), on every mapping a wrapper
\* can be made with.  An agent of the mapping is kept as its name and its
\* _llm attribute: has_llm tells whether the object has the attribute, and
\* _llm is its value, None or an LLM.

LLM == "llm"

AgentObject(name, has_llm, _llm) ==
    [name |-> name, has_llm |-> has_llm, _llm |-> _llm]

\* The agent objects called name: without the attribute, with None, with
\* an LLM.
AgentObjects(name) ==
    {AgentObject(name, FALSE, NULL), AgentObject(name, TRUE, NULL),
     AgentObject(name, TRUE, LLM)}

\* The names of the agents of these mappings, and the messages sent.
SendNames == {"A", "B"}

Messages == {"m1", "m2"}

\* The mappings: every sequence of agent objects of different names.
WrapperAgents ==
    {<<>>}
    \cup {<<a>> : a \in UNION {AgentObjects(n) : n \in SendNames}}
    \cup {<<a, b>> : a \in AgentObjects("A"), b \in AgentObjects("B")}
    \cup {<<b, a>> : a \in AgentObjects("A"), b \in AgentObjects("B")}

\* What a call of send() gave: the exception raised, the calls of
\* generate_str made, each as the agent and the message, and the result
\* returned.
Sent(agent_name, message, error, calls) ==
    [happened |-> TRUE, agent_name |-> agent_name, message |-> message,
     error |-> error, calls |-> calls,
     result |-> IF error = NoError THEN <<"generated", agent_name, message>>
                ELSE <<>>]

NotFound(agent_name) ==
    [type |-> "ValueError", msg |-> <<"Agent", agent_name, "not found">>]

NoLlmAttached(agent_name) ==
    [type |-> "RuntimeError",
     msg |-> <<"Agent", agent_name, "has no LLM attached">>]

\* The error of None.generate_str and of a missing attribute.
AttributeError(attribute) == [type |-> "AttributeError", msg |-> <<attribute>>]

\* send() without the test of _llm: generate_str is looked up on whatever
\* agent._llm gives.
SendResultNoLlmTest(a, agent_name, message) ==
    IF ~HasKey(a, agent_name)
    THEN Sent(agent_name, message, NotFound(agent_name), <<>>)
    ELSE IF ~Lookup(a, agent_name).has_llm
    THEN Sent(agent_name, message, AttributeError("_llm"), <<>>)
    ELSE IF Lookup(a, agent_name)._llm = NULL
    THEN Sent(agent_name, message, AttributeError("generate_str"), <<>>)
    ELSE Sent(agent_name, message, NoError,
              <<[agent |-> agent_name, message |-> message]>>)

\* send(agent_name, message) on the mapping a.
SendResult(a, agent_name, message) ==
    IF ~HasKey(a, agent_name)
    THEN Sent(agent_name, message, NotFound(agent_name), <<>>)
    ELSE IF ~Lookup(a, agent_name).has_llm \/ Lookup(a, agent_name)._llm = NULL
    THEN Sent(agent_name, message, NoLlmAttached(agent_name), <<>>)
    ELSE Sent(agent_name, message, NoError,
              <<[agent |-> agent_name, message |-> message]>>)

Send(agent_name, message) ==
    /\ wrapper' = [wrapper EXCEPT
                      !.sent = SendResult(wrapper.agents, agent_name, message)]
    /\ UNCHANGED <<declVars, appVars, exec, prompt, settings, scope>>

InitSend ==
    /\ agents = <<>>
    /\ default_model = BaselineDefaultModel
    /\ args_model = NULL
    /\ phase = "declare"
    /\ lastRun = NoRun
    /\ prevRun = NoRun
    /\ log = <<>>
    /\ AppInit
    /\ \E a \in WrapperAgents : wrapper = [agents |-> a, sent |-> NoSend]
    /\ exec = NoExec
    /\ prompt = NoPrompt
    /\ settings = NoSettings
    /\ scope = NoScope

NextSend == \E agent_name \in Names, message \in Messages : Send(agent_name, message)

SpecSend == InitSend /\ [][NextSend]_vars

----------------------------------------------------------------------------
\* PromptMessageMultipart
\* (src/src/mcp_agent/mcp/prompt_message_multipart.py).  A PromptMessage is
\* its role and its one content; a PromptMessageMultipart is its role and
\* the list of its content parts.

Roles == {"user", "assistant"}

Contents == {"c1", "c2"}

\* Bounds: the messages given to to_multipart, the multipart messages
\* given to the flattening, and the content parts of one of these.
MaxMessages == 3

MaxMultipart == 2

MaxParts == 2

PromptMessage(role, content) == [role |-> role, content |-> content]

Multipart(role, content) == [role |-> role, content |-> content]

PromptMessages == {PromptMessage(r, c) : r \in Roles, c \in Contents}

Multiparts == {Multipart(r, c) : r \in Roles, c \in SeqsUpTo(Contents, MaxParts)}

\* current_group = None.
NoGroup == [none |-> TRUE, role |-> NULL, content |-> <<>>]

Group(role, content) == [none |-> FALSE, role |-> role, content |-> content]

\* The loop of to_multipart, from the i-th message on: result,
\* current_group and current_role as the loop leaves them.
RECURSIVE ToMultipartLoop(_, _, _, _, _)
ToMultipartLoop(messages, i, result, current_group, current_role) ==
    IF i > Len(messages)
    THEN [result |-> result, current_group |-> current_group]
    ELSE IF messages[i].role # current_role
    THEN ToMultipartLoop(messages, i + 1,
             IF ~current_group.none
             THEN Append(result, Multipart(current_group.role,
                                           current_group.content))
             ELSE result,
             Group(messages[i].role, <<messages[i].content>>),
             messages[i].role)
    ELSE ToMultipartLoop(messages, i + 1, result,
             IF ~current_group.none
             THEN Group(current_group.role,
                        Append(current_group.content, messages[i].content))
             ELSE current_group,
             current_role)

\* to_multipart without the statement that adds the last group.
ToMultipartDropLast(messages) ==
    IF messages = <<>> THEN <<>>
    ELSE ToMultipartLoop(messages, 1, <<>>, NoGroup, NULL).result

\* PromptMessageMultipart.to_multipart(messages).
ToMultipart(messages) ==
    IF messages = <<>> THEN <<>>
    ELSE LET l == ToMultipartLoop(messages, 1, <<>>, NoGroup, NULL)
         IN  IF ~l.current_group.none
             THEN Append(l.result, Multipart(l.current_group.role,
                                             l.current_group.content))
             ELSE l.result

\* from_multipart giving every message the role "user".
FromMultipartUserRole(m) ==
    [i \in 1..Len(m.content) |-> PromptMessage("user", m.content[i])]

\* m.from_multipart().
FromMultipart(m) ==
    [i \in 1..Len(m.content) |-> PromptMessage(m.role, m.content[i])]

\* Prompt.from_multipart(multipart): the messages of every multipart
\* message, one multipart message after the other.
RECURSIVE PromptFromMultipart(_)
PromptFromMultipart(multipart) ==
    IF multipart = <<>> THEN <<>>
    ELSE FromMultipart(Head(multipart)) \o PromptFromMultipart(Tail(multipart))

\* The multipart messages held are flattened.
Flatten ==
    /\ prompt' = [prompt EXCEPT
                     !.flattened = PromptFromMultipart(prompt.multipart),
                     !.converted = @ \cup {"from_multipart"}]
    /\ UNCHANGED <<declVars, appVars, wrapper, exec, settings, scope>>

\* The messages held are grouped by to_multipart.
ToMultipartCall ==
    /\ prompt' = [prompt EXCEPT
                     !.multipart = ToMultipart(prompt.messages),
                     !.flattened = <<>>,
                     !.converted = {"to_multipart"}]
    /\ UNCHANGED <<declVars, appVars, wrapper, exec, settings, scope>>

\* The program before any conversion, holding the prompt p.
InitPrompt(p) ==
    /\ agents = <<>>
    /\ default_model = BaselineDefaultModel
    /\ args_model = NULL
    /\ phase = "declare"
    /\ lastRun = NoRun
    /\ prevRun = NoRun
    /\ log = <<>>
    /\ AppInit
    /\ wrapper = [agents |-> <<>>, sent |-> NoSend]
    /\ exec = NoExec
    /\ prompt = p
    /\ settings = NoSettings
    /\ scope = NoScope

\* Flattening, on every list of multipart messages.
InitFlatten ==
    \E multipart \in SeqsUpTo(Multiparts, MaxMultipart) :
       InitPrompt([NoPrompt EXCEPT !.multipart = multipart])

NextFlatten == Flatten

SpecFlatten == InitFlatten /\ [][NextFlatten]_vars

\* Grouping and flattening, on every list of messages.
InitGroup ==
    \E messages \in SeqsUpTo(PromptMessages, MaxMessages) :
       InitPrompt([NoPrompt EXCEPT !.messages = messages])

NextGroup == ToMultipartCall \/ Flatten

SpecGroup == InitGroup /\ [][NextGroup]_vars

----------------------------------------------------------------------------
\* create_messages_with_resources
\* (src/src/mcp_agent/mcp/prompts/prompt_load.py).  A content section is
\* its role, its text and the paths of its resources; a message is its role
\* and its content, a content being its type and the text or the path it
\* was made of.

SectionRoles == {"user", "assistant", "system"}

SectionTexts == {"t1", "t2"}

ResourcePaths == {"a.txt", "b.png", "missing.txt"}

\* Bounds: the content sections given, and the resources of all of them
\* together.
MaxSections == 2

MaxResources == 2

PromptContent(role, text, resources) ==
    [role |-> role, text |-> text, resources |-> resources]

\* cast_message_role(role).
CastMessageRole(role) ==
    IF role = "user" \/ role = "assistant" THEN role ELSE "user"

\* resource_utils.load_resource_content(resource_path, prompt_files), on
\* the files there are: missing.txt is not there and the call raises; the
\* others load, with the mime type of their suffix.
LoadResourceContent(resource_path) ==
    IF resource_path = "missing.txt"
    THEN [raised |-> TRUE, content |-> NULL, mime_type |-> NULL]
    ELSE [raised |-> FALSE, content |-> resource_path,
          mime_type |-> IF resource_path = "b.png" THEN "image/png"
                        ELSE "text/plain"]

\* mime_utils.is_image_mime_type(mime_type).
IsImageMimeType(mime_type) == mime_type = "image/png"

\* message_class = UserMessage if role == "user" else AssistantMessage.
MessageClassRole(role) == IF role = "user" THEN "user" ELSE "assistant"

\* create_content_message(text, role).
CreateContentMessage(text, role) ==
    [role |-> MessageClassRole(role),
     content |-> [type |-> "text", of |-> text]]

\* create_resource_message(resource_path, content, mime_type, is_binary,
\* role).
CreateResourceMessage(resource_path, content, mime_type, role) ==
    [role |-> MessageClassRole(role),
     content |-> [type |-> IF IsImageMimeType(mime_type) THEN "image"
                           ELSE "resource",
                  of |-> resource_path]]

RECURSIVE ResourceLoop(_, _, _, _)

\* The loop over the resources that an error of the loading ends.
ResourceLoopAbortOnError(resources, j, role, messages) ==
    IF j > Len(resources) THEN messages
    ELSE IF LoadResourceContent(resources[j]).raised
    THEN messages
    ELSE ResourceLoop(resources, j + 1, role,
             Append(messages,
                    CreateResourceMessage(resources[j],
                        LoadResourceContent(resources[j]).content,
                        LoadResourceContent(resources[j]).mime_type, role)))

\* for resource_path in section.resources, from the j-th path on: the
\* message of the resource is appended, and an exception of the loading is
\* logged and the loop goes on.
ResourceLoop(resources, j, role, messages) ==
    IF j > Len(resources) THEN messages
    ELSE IF LoadResourceContent(resources[j]).raised
    THEN ResourceLoop(resources, j + 1, role, messages)
    ELSE ResourceLoop(resources, j + 1, role,
             Append(messages,
                    CreateResourceMessage(resources[j],
                        LoadResourceContent(resources[j]).content,
                        LoadResourceContent(resources[j]).mime_type, role)))

\* for section in content_sections, from the i-th section on.
RECURSIVE SectionLoop(_, _, _)
SectionLoop(content_sections, i, messages) ==
    IF i > Len(content_sections) THEN messages
    ELSE SectionLoop(content_sections, i + 1,
             ResourceLoop(content_sections[i].resources, 1,
                 CastMessageRole(content_sections[i].role),
                 Append(messages,
                        CreateContentMessage(content_sections[i].text,
                            CastMessageRole(content_sections[i].role)))))

\* create_messages_with_resources(content_sections, prompt_files).
CreateMessagesWithResources(content_sections) ==
    SectionLoop(content_sections, 1, <<>>)

\* The number of resources of the sections from the i-th on.
RECURSIVE ResourceCount(_, _)
ResourceCount(content_sections, i) ==
    IF i > Len(content_sections) THEN 0
    ELSE Len(content_sections[i].resources)
         + ResourceCount(content_sections, i + 1)

\* No content sections given yet, and no messages created.
NoLoad == [sections |-> <<>>, messages |-> <<>>, created |-> FALSE]

\* The template read has one content section more.
AddSection(role, text, resources) ==
    /\ ~prompt.created
    /\ Len(prompt.sections) < MaxSections
    /\ ResourceCount(prompt.sections, 1) + Len(resources) <= MaxResources
    /\ prompt' = [prompt EXCEPT
                     !.sections = Append(@, PromptContent(role, text,
                                                          resources))]
    /\ UNCHANGED <<declVars, appVars, wrapper, exec, settings, scope>>

\* The messages of the content sections are created.
CreateMessages ==
    /\ ~prompt.created
    /\ prompt' = [prompt EXCEPT
                     !.messages = CreateMessagesWithResources(prompt.sections),
                     !.created = TRUE]
    /\ UNCHANGED <<declVars, appVars, wrapper, exec, settings, scope>>

InitLoad == InitPrompt(NoLoad)

NextLoad ==
    \/ \E role \in SectionRoles, text \in SectionTexts :
          \E resources \in SeqsUpTo(ResourcePaths, MaxResources) :
             AddSection(role, text, resources)
    \/ CreateMessages

SpecLoad == InitLoad /\ [][NextLoad]_vars

----------------------------------------------------------------------------
\* get_settings (src/src/mcp_agent/config.py).  The dicts of the settings
\* are objects of a heap, each known by its address, its place in the
\* heap: a dict object maps its keys to values, a value being a scalar or
\* the address of a dict.  The same dicts as values, with the dicts they
\* hold written in place of their addresses, are what a YAML file holds.

Scalar(v) == [isdict |-> FALSE, scalar |-> v, at |-> 0]

Ref(addr) == [isdict |-> TRUE, scalar |-> NULL, at |-> addr]

ScalarValue(v) == [isdict |-> FALSE, scalar |-> v, items |-> <<>>]

DictValue(items) == [isdict |-> TRUE, scalar |-> NULL, items |-> items]

\* The dict with the given keys, each key being there or not.
DictsOf(keys, values) ==
    UNION {[present -> values] : present \in SUBSET keys}

Scalars == {"x", "y"}

SettingsKeys == {"a", "b"}

InnerKeys == {"a"}

\* The dicts drawn: of scalars alone, of these and scalars under one key,
\* and at the top, of all of these under two keys.
FlatValues == {ScalarValue(v) : v \in Scalars}

InnerDicts == DictsOf(InnerKeys, FlatValues)

MiddleDicts ==
    DictsOf(InnerKeys, FlatValues \cup {DictValue(d) : d \in InnerDicts})

SettingsDicts ==
    DictsOf(SettingsKeys,
            FlatValues \cup {DictValue(d) : d \in MiddleDicts})

\* The order in which the keys of a dict are gone through.
KeyOrder == <<"a", "b">>

KeysOf(d) == SelectSeq(KeyOrder, LAMBDA k : k \in DOMAIN d)

\* merged[key] = value on the dict object at addr.
SetItem(heap, addr, key, value) ==
    [heap EXCEPT ![addr] = [k \in DOMAIN heap[addr] \cup {key} |->
                               IF k = key THEN value ELSE heap[addr][k]]]

\* The dict d of a YAML file made an object of the heap, the dicts it
\* holds each an object of their own: the heap after, and the address.
RECURSIVE Store(_, _)
RECURSIVE StoreItems(_, _, _, _)
StoreItems(heap, addr, d, keys) ==
    IF keys = <<>> THEN [heap |-> heap, at |-> addr]
    ELSE IF d[Head(keys)].isdict
    THEN StoreItems(
             SetItem(Store(heap, d[Head(keys)].items).heap, addr, Head(keys),
                     Ref(Store(heap, d[Head(keys)].items).at)),
             addr, d, Tail(keys))
    ELSE StoreItems(SetItem(heap, addr, Head(keys),
                            Scalar(d[Head(keys)].scalar)),
                    addr, d, Tail(keys))

Store(heap, d) ==
    StoreItems(Append(heap, <<>>), Len(heap) + 1, d, KeysOf(d))

\* The dict at addr as a value.
RECURSIVE ValueAt(_, _)
ValueAt(heap, addr) ==
    [k \in DOMAIN heap[addr] |->
        IF heap[addr][k].isdict
        THEN DictValue(ValueAt(heap, heap[addr][k].at))
        ELSE ScalarValue(heap[addr][k].scalar)]

RECURSIVE DeepMerge(_, _, _)
RECURSIVE DeepMergeLoop(_, _, _, _)

\* for key, value in update.items(), over the keys given: merged is the
\* address of the dict that is written.
DeepMergeLoop(heap, merged, update, keys) ==
    IF keys = <<>> THEN [heap |-> heap, at |-> merged]
    ELSE IF /\ Head(keys) \in DOMAIN heap[merged]
            /\ heap[merged][Head(keys)].isdict
            /\ heap[update][Head(keys)].isdict
    THEN DeepMergeLoop(
             SetItem(DeepMerge(heap, heap[merged][Head(keys)].at,
                               heap[update][Head(keys)].at).heap,
                     merged, Head(keys),
                     Ref(DeepMerge(heap, heap[merged][Head(keys)].at,
                                   heap[update][Head(keys)].at).at)),
             merged, update, Tail(keys))
    ELSE DeepMergeLoop(SetItem(heap, merged, Head(keys),
                               heap[update][Head(keys)]),
                       merged, update, Tail(keys))

\* deep_merge with merged = base in place of merged = base.copy().
DeepMergeInPlace(heap, base, update) ==
    DeepMergeLoop(heap, base, update, KeysOf(heap[update]))

\* deep_merge(base, update), base and update being addresses: merged is a
\* new dict object with the items of base.
DeepMerge(heap, base, update) ==
    DeepMergeLoop(Append(heap, heap[base]), Len(heap) + 1, update,
                  KeysOf(heap[update]))

\* Two dicts held, base and update, and no merge made.
Merging(heap, base, update) ==
    [heap |-> heap, base |-> base, update |-> update, before |-> heap,
     merged |-> 0]

\* merged = deep_merge(base, update).
DeepMergeCall ==
    /\ settings.merged = 0
    /\ \E r \in {DeepMerge(settings.heap, settings.base, settings.update)} :
          settings' = [settings EXCEPT !.heap = r.heap, !.merged = r.at]
    /\ UNCHANGED <<declVars, appVars, wrapper, exec, prompt, scope>>

\* The program holding two dicts, before any merge.
InitMerge ==
    /\ agents = <<>>
    /\ default_model = BaselineDefaultModel
    /\ args_model = NULL
    /\ phase = "declare"
    /\ lastRun = NoRun
    /\ prevRun = NoRun
    /\ log = <<>>
    /\ AppInit
    /\ wrapper = [agents |-> <<>>, sent |-> NoSend]
    /\ exec = NoExec
    /\ prompt = NoPrompt
    /\ scope = NoScope
    /\ \E b \in SettingsDicts, u \in SettingsDicts :
          \E sb \in {Store(<<>>, b)} :
             \E su \in {Store(sb.heap, u)} :
                settings = Merging(su.heap, sb.at, su.at)

NextMerge == DeepMergeCall

SpecMerge == InitMerge /\ [][NextMerge]_vars

----------------------------------------------------------------------------
\* The run scope of the decorator interface, MCPAgentDecorator.run(), step
\* by step.  scope.events lists what was called on the basic agents and on
\* the application, in the order of the calls; scope.mapping is
\* active_agents as the wrapper was given it; scope.i is the place of the
\* loop of the finally.

Event(kind, name, outcome) == [kind |-> kind, name |-> name, outcome |-> outcome]

\* async with agent: ... agent._llm = await agent.attach_llm(llm_factory),
\* for every basic agent from the i-th on: the agent is entered, and left
\* when the block ends.
RECURSIVE AgentBlocks(_, _)
AgentBlocks(active_agents, i) ==
    IF i > Len(active_agents) THEN <<>>
    ELSE <<Event("aenter", active_agents[i].name, "returned"),
           Event("aexit", active_agents[i].name, "returned")>>
         \o AgentBlocks(active_agents, i + 1)

\* isinstance(agent, Agent): the basic agents are Agents, the others are
\* BaseAgentWrappers.
IsAgent(agent) == agent.type = BASIC

\* How a call of agent.__aexit__ in the finally can end.
AexitOutcomes == {"returned", "raised"}

\* The body of "async with self.app.run() as agent_app" up to the yield:
\* the agents are built; an exception of the build leaves run().
BuildScope ==
    /\ phase = "declare"
    /\ procs["t1"].pc = "body"
    /\ scope.pc = "idle"
    /\ Run
    /\ scope' = [pc |-> IF lastRun'.error = NoError THEN "body"
                        ELSE "failed",
                 events |-> AgentBlocks(lastRun'.active_agents, 1),
                 mapping |-> lastRun'.agents, i |-> 1, reason |-> NULL]
    /\ UNCHANGED <<appVars, wrapper, exec, prompt, settings>>

\* The body of "async with fast.run()" ends, and the finally begins.
EndBody(reason) ==
    /\ scope.pc = "body"
    /\ scope' = [scope EXCEPT
                    !.pc = "finally", !.reason = reason,
                    !.events = Append(@, Event("body_end", NULL, reason))]
    /\ UNCHANGED <<declVars, appVars, wrapper, exec, prompt, settings>>

\* for name, agent in active_agents.items(): if isinstance(agent, Agent):
\* await agent.__aexit__(None, None, None), at the agent the loop has
\* come to: an exception of the call leaves the loop and run().
FinallyStep(outcome) ==
    /\ scope.pc = "finally"
    /\ scope.i <= Len(scope.mapping)
    /\ IF IsAgent(scope.mapping[scope.i])
       THEN scope' = [scope EXCEPT
                         !.pc = IF outcome = "raised" THEN "failed" ELSE @,
                         !.reason = IF outcome = "raised" THEN "error" ELSE @,
                         !.i = @ + 1,
                         !.events = Append(@, Event("aexit",
                                        scope.mapping[scope.i].name, outcome))]
       ELSE outcome = "returned" /\ scope' = [scope EXCEPT !.i = @ + 1]
    /\ UNCHANGED <<declVars, appVars, wrapper, exec, prompt, settings>>

\* run() is left, after its finally or with the exception of the build or
\* of the finally: the finally of app.run() calls cleanup().
LeaveScope ==
    /\ \/ scope.pc = "failed"
       \/ scope.pc = "finally" /\ scope.i > Len(scope.mapping)
    /\ ExitBody("t1", IF scope.pc = "failed" THEN "error" ELSE scope.reason)
    /\ scope' = [scope EXCEPT
                    !.pc = "closed",
                    !.events = Append(@, Event("cleanup", NULL,
                                   IF app._initialized THEN "called"
                                   ELSE "skipped"))]
    /\ UNCHANGED <<declVars, wrapper, exec, prompt, settings>>

\* A program that declares agents and parallel agents and runs one scope.
NextTeardown ==
    \/ \E name \in Names :
          /\ ~HasKey(agents, name)
          /\ procs["t1"].pc = "idle"
          /\ DeclareAgent(name, "i1", NULL)
          /\ UNCHANGED <<log, appVars, callVars>>
    \/ \E name \in Names, fan_in \in FanIns, fan_out \in SeqsUpTo(Names, 1) :
          /\ ~HasKey(agents, name)
          /\ procs["t1"].pc = "idle"
          /\ DeclareParallel(name, fan_in, fan_out, "", NULL)
          /\ UNCHANGED <<log, appVars, callVars>>
    \/ scope.pc = "idle" /\ OpenScope
    \/ InitializeResume("t1", "returned") /\ UNCHANGED <<declVars, callVars>>
    \/ BuildScope
    \/ \E reason \in ExitReasons : EndBody(reason)
    \/ \E outcome \in AexitOutcomes : FinallyStep(outcome)
    \/ LeaveScope
    \/ \E outcome \in TeardownOutcomes :
          CleanupResume("t1", outcome) /\ UNCHANGED <<declVars, callVars>>

SpecTeardown == Init /\ [][NextTeardown]_vars

----------------------------------------------------------------------------
\* workflow_task and is_workflow_task on two coroutine functions and on
\* names supplied.

\* app.is_workflow_task(func).
IsWorkflowTask(w, func) == w.attrs[func].is_workflow_task

\* The names handed to workflow_task(): none, and one.
RegisteredNames == {NULL, "n1"}

RegisteredTimeouts == {NoTimedelta, Timedelta(30)}

\* app.workflow_task(name, schedule_to_close_timeout)(func): what the call
\* was given and what it gave.
RegisterTask(name, schedule_to_close_timeout, func) ==
    /\ \E r \in {WorkflowTaskDecorator(app, world, name,
                                       schedule_to_close_timeout, NoDict,
                                       func)} :
          /\ world' = r.world
          /\ obs' = [obs EXCEPT !.call =
                        [happened |-> TRUE, op |-> "workflow_task",
                         error |-> r.error, name |-> name, func |-> func,
                         metadata |-> r.metadata, result |-> r.result]]
    /\ UNCHANGED <<app, procs>>

\* No call of workflow_task made.
NoRegisterTask ==
    [happened |-> FALSE, op |-> NULL, error |-> NULL, name |-> NULL,
     func |-> NULL, metadata |-> NoMetadata, result |-> NULL]

InitRegister ==
    /\ agents = <<>>
    /\ default_model = BaselineDefaultModel
    /\ args_model = NULL
    /\ phase = "declare"
    /\ lastRun = NoRun
    /\ prevRun = NoRun
    /\ log = <<>>
    /\ app = [_context |-> NoContext, _initialized |-> FALSE, _workflows |-> {}]
    /\ procs = [t \in Tasks |-> Idle]
    /\ world = [World("asyncio") EXCEPT
                   !.attrs = [func \in TaskFuncs |-> Unmarked]]
    /\ obs = [enter |-> NoCall, exit |-> NoCall, cleanup |-> NoCall,
              call |-> NoRegisterTask]
    /\ CallInit

\* One task enters and leaves run scopes, and the program registers tasks
\* inside and outside of them.
NextRegister ==
    \/ EnterRun("t1") /\ UNCHANGED <<declVars, callVars>>
    \/ InitializeResume("t1", "returned") /\ UNCHANGED <<declVars, callVars>>
    \/ ExitBody("t1", "normal") /\ UNCHANGED <<declVars, callVars>>
    \/ CleanupResume("t1", "returned") /\ UNCHANGED <<declVars, callVars>>
    \/ \E name \in RegisteredNames :
          \E schedule_to_close_timeout \in RegisteredTimeouts :
             \E func \in TaskFuncs :
                /\ RegisterTask(name, schedule_to_close_timeout, func)
                /\ UNCHANGED <<declVars, callVars>>

SpecRegister == InitRegister /\ [][NextRegister]_vars

----------------------------------------------------------------------------
\* get_settings and the module global _settings
\* (src/src/mcp_agent/config.py).  Settings objects live in a list,
\* objects, and are named by their place in it; 0 is None.  files is what
\* each config file holds when it is read, secrets what the first secrets
\* file found up the tree holds; both may change between two calls.

\* The file Settings.find_config() looks for, and a file of another name.
ConfigFiles == {"fastagent.config.yaml", "other.yaml"}

\* The config_path argument: none, or the path of a config file.
ConfigPaths == {NULL} \cup ConfigFiles

\* What a config file holds: nothing at that path; an empty document; a
\* document that sets execution_engine.
FileContents == {"missing", "empty", "asyncio", "temporal", "bogus"}

SecretsContents == {"missing", "asyncio", "temporal"}

\* Calls of get_settings made by the process.
MaxGets == 3

\* Settings.find_config(): the first file of a known name in the current
\* directory or above it, or None.
FindConfig(files) ==
    IF files["fastagent.config.yaml"] # "missing"
    THEN "fastagent.config.yaml" ELSE NULL

\* yaml.safe_load(f) or {}: the value the document gives execution_engine,
\* None where it does not set it.
YamlSafeLoad(content) == IF content = "empty" THEN NULL ELSE content

\* merged_settings after the secrets file, when there is one, is merged
\* over the config file: a key of the update replaces that of the base.
MergedSettings(content, secret) ==
    IF secret # "missing" THEN YamlSafeLoad(secret) ELSE YamlSafeLoad(content)

\* execution_engine: Literal["asyncio", "temporal"] = "asyncio".
SettingsValid(execution_engine) ==
    execution_engine = NULL \/ execution_engine \in Engines

\* Settings(**merged_settings).
NewSettings(execution_engine) ==
    [execution_engine |->
        IF execution_engine = NULL THEN "asyncio" ELSE execution_engine]

\* What a call of get_settings gave: the object returned, or the error
\* raised; loaded says that the call built a Settings object.
Got(s, n, config_path, result, error, loaded) ==
    [s EXCEPT !.call = [n |-> n, config_path |-> config_path,
                        result |-> result, error |-> error,
                        loaded |-> loaded]]

\* _settings = Settings(...); return _settings.
Assign(s, config_path, execution_engine) ==
    Got([s EXCEPT !._settings = Len(s.objects) + 1,
                  !.objects = Append(s.objects,
                                     NewSettings(execution_engine))],
        s.call.n + 1, config_path, Len(s.objects) + 1, NULL, TRUE)

\* The body of get_settings after the test of _settings.
LoadSettings(s, config_path, config_file) ==
    IF config_file = NULL \/ s.files[config_file] = "missing"
    THEN Assign(s, config_path, NULL)
    ELSE IF SettingsValid(MergedSettings(s.files[config_file], s.secrets))
    THEN Assign(s, config_path,
                MergedSettings(s.files[config_file], s.secrets))
    ELSE Got(s, s.call.n + 1, config_path, 0, "ValidationError", FALSE)

\* config_file = Path(config_path) if config_path else
\* Settings.find_config().
ConfigFile(s, config_path) ==
    IF config_path # NULL THEN config_path ELSE FindConfig(s.files)

GetSettingsReload(s, config_path) ==
    LoadSettings(s, config_path, ConfigFile(s, config_path))

\* get_settings(config_path).
GetSettings(s, config_path) ==
    IF s._settings # 0
    THEN Got(s, s.call.n + 1, config_path, s._settings, NULL, FALSE)
    ELSE LoadSettings(s, config_path, ConfigFile(s, config_path))

\* settings.execution_engine of the settings object at, which
\* MCPApp.engine hands out through the executor of the context.
ExecutionEngine(s, at) == s.objects[at].execution_engine

\* The process calls get_settings(config_path).
GetSettingsCall(config_path) ==
    /\ settings.call.n < MaxGets
    /\ settings' = GetSettings(settings, config_path)
    /\ UNCHANGED <<declVars, appVars, wrapper, exec, prompt, scope>>

\* A config file is written, or removed.
WriteConfig(file, content) ==
    /\ settings.files[file] # content
    /\ settings' = [settings EXCEPT !.files[file] = content]
    /\ UNCHANGED <<declVars, appVars, wrapper, exec, prompt, scope>>

\* The secrets file is written, or removed.
WriteSecrets(content) ==
    /\ settings.secrets # content
    /\ settings' = [settings EXCEPT !.secrets = content]
    /\ UNCHANGED <<declVars, appVars, wrapper, exec, prompt, scope>>

\* No call of get_settings made.
NoGet ==
    [n |-> 0, config_path |-> NULL, result |-> 0, error |-> NULL,
     loaded |-> FALSE]

\* The process starts with _settings = None, over any files.
InitSettings ==
    /\ agents = <<>>
    /\ default_model = BaselineDefaultModel
    /\ args_model = NULL
    /\ phase = "declare"
    /\ lastRun = NoRun
    /\ prevRun = NoRun
    /\ log = <<>>
    /\ AppInit
    /\ wrapper = [agents |-> <<>>, sent |-> NoSend]
    /\ exec = NoExec
    /\ prompt = NoPrompt
    /\ scope = NoScope
    /\ \E files \in [ConfigFiles -> FileContents] :
          \E secrets \in SecretsContents :
             settings = [_settings |-> 0, objects |-> <<>>, files |-> files,
                         secrets |-> secrets, call |-> NoGet]

NextSettings ==
    \/ \E config_path \in ConfigPaths : GetSettingsCall(config_path)
    \/ \E file \in ConfigFiles :
          \E content \in FileContents : WriteConfig(file, content)
    \/ \E content \in SecretsContents : WriteSecrets(content)

SpecSettings == InitSettings /\ [][NextSettings]_vars

----------------------------------------------------------------------------
\* AgentAppWrapper.__init__ and __call__
\* (src/src/mcp_agent/core/decorator_app.py) on the mapping run() builds.
\* wrapper.arg is the agent_name the last call was given.

NoAgentsAvailable == [type |-> "ValueError", msg |-> <<"No agents available">>]

\* active_agents as the wrapper sees it: every agent of a build that
\* raised nothing has its _llm, a basic agent from attach_llm and a
\* composite from BaseAgentWrapper.
RECURSIVE Attached(_, _)
Attached(active_agents, i) ==
    IF i > Len(active_agents) THEN <<>>
    ELSE <<AgentObject(active_agents[i].name, TRUE, LLM)>>
         \o Attached(active_agents, i + 1)

AgentAppWrapperLast(a) ==
    [agents |-> a,
     _default_agent |-> IF Len(a) > 0 THEN a[Len(a)].name ELSE NULL,
     sent |-> NoSend, arg |-> NULL]

\* AgentAppWrapper(agent_app, active_agents): _default_agent =
\* next(iter(agents)) if agents else None.
AgentAppWrapper(a) ==
    [agents |-> a,
     _default_agent |-> IF Len(a) > 0 THEN a[1].name ELSE NULL,
     sent |-> NoSend, arg |-> NULL]

\* target_agent = agent_name or self._default_agent.
TargetAgent(w, agent_name) ==
    IF agent_name # NULL THEN agent_name ELSE w._default_agent

\* wrapper(message, agent_name).
CallResult(w, message, agent_name) ==
    IF TargetAgent(w, agent_name) = NULL
    THEN Sent(NULL, message, NoAgentsAvailable, <<>>)
    ELSE SendResult(w.agents, TargetAgent(w, agent_name), message)

\* The names a call of the wrapper is given: none, an agent's, and one no
\* agent has.
CallNames == {NULL, "A", "Z"}

\* The child_agents lists of the orchestrators declared here.
DefaultChildLists == {<<>>, <<"C">>}

\* async with fast.run() as wrapper, up to the yield: the build, and the
\* wrapper made of what it gave when it raised nothing.
RunWrapped ==
    /\ phase = "declare"
    /\ Run
    /\ wrapper' = IF lastRun'.error = NoError
                  THEN AgentAppWrapper(Attached(lastRun'.agents, 1))
                  ELSE wrapper
    /\ UNCHANGED <<appVars, exec, prompt, settings, scope>>

\* await wrapper(message, agent_name) in the body of the run scope.
CallWrapper(message, agent_name) ==
    /\ lastRun.ran
    /\ lastRun.error = NoError
    /\ wrapper' = [wrapper EXCEPT
                      !.sent = CallResult(wrapper, message, agent_name),
                      !.arg = agent_name]
    /\ UNCHANGED <<declVars, appVars, exec, prompt, settings, scope>>

InitDefault ==
    /\ agents = <<>>
    /\ default_model = BaselineDefaultModel
    /\ args_model = NULL
    /\ phase = "declare"
    /\ lastRun = NoRun
    /\ prevRun = NoRun
    /\ log = <<>>
    /\ AppInit
    /\ wrapper = AgentAppWrapper(<<>>)
    /\ exec = NoExec
    /\ prompt = NoPrompt
    /\ settings = NoSettings
    /\ scope = NoScope

\* Declarations under new names and under names already taken, then one
\* run scope and calls of its wrapper.
NextDefault ==
    \/ \E name \in DeclNames :
          /\ Len(log) < MaxDecls
          /\ DeclareAgent(name, "i1", NULL)
          /\ log' = Append(log, Declared(BASIC, name, "i1", NULL, <<>>))
          /\ UNCHANGED <<appVars, callVars>>
    \/ \E name \in DeclNames, fan_in \in FanIns, fan_out \in DeclFanOuts :
          /\ Len(log) < MaxDecls
          /\ DeclareParallel(name, fan_in, fan_out, "", NULL)
          /\ log' = Append(log, Declared(PARALLEL, name, "", fan_in, fan_out))
          /\ UNCHANGED <<appVars, callVars>>
    \/ \E name \in DeclNames, child_agents \in DefaultChildLists :
          /\ Len(log) < MaxDecls
          /\ DeclareOrchestrator(name, "i1", child_agents, OrchestratorModel)
          /\ log' = Append(log, Declared(ORCHESTRATOR, name, "i1", NULL,
                                         child_agents))
          /\ UNCHANGED <<appVars, callVars>>
    \/ RunWrapped
    \/ \E message \in Messages, agent_name \in CallNames :
          CallWrapper(message, agent_name)

SpecDefault == InitDefault /\ [][NextDefault]_vars

----------------------------------------------------------------------------
\* The dependency graph of a registry, defined without the walk: an edge
\* goes from a parallel entry to each name of its fan_out.

IsParallel(reg, n) == HasKey(reg, n) /\ Lookup(reg, n).type = PARALLEL

FanOutEdge(reg, from, to) ==
    IsParallel(reg, from) /\ to \in Range(Lookup(reg, from).fan_out)

RECURSIVE ReachWithin(_, _, _)
ReachWithin(reg, S, k) ==
    IF k = 0 THEN S
    ELSE ReachWithin(reg,
             S \cup {b \in Names : \E a \in S : FanOutEdge(reg, a, b)}, k - 1)

\* The names n depends on, directly or through other names.
DependsOn(reg, n) ==
    ReachWithin(reg, {b \in Names : FanOutEdge(reg, n, b)}, Cardinality(Names))

OnCycle(reg, n) == n \in DependsOn(reg, n)

Acyclic(reg) == \A n \in Names : ~OnCycle(reg, n)

\* No cycle can be met walking from n.
CycleFree(reg, n) == \A m \in {n} \cup DependsOn(reg, n) : ~OnCycle(reg, m)

Unregistered(reg, n) ==
    {u \in Range(Lookup(reg, n).fan_out) : ~HasKey(reg, u)}

----------------------------------------------------------------------------
\* C1: on an acyclic registry, the order the walks give lists every
\* dependency before each node that depends on it: whenever a node of the
\* order has another node of the order in its fan_out, that other node
\* stands at a smaller index.
C1_DependenciesFirst ==
    (lastRun.ran /\ Acyclic(agents)) =>
        \A i, j \in 1..Len(lastRun.order) :
            FanOutEdge(agents, lastRun.order[i], lastRun.order[j]) => j < i

\* C1 witness: a chain of three parallel agents has been ordered.
C1_Witness ==
    /\ lastRun.ran
    /\ Acyclic(agents)
    /\ Len(lastRun.order) = 3
    /\ FanOutEdge(agents, lastRun.order[3], lastRun.order[2])
    /\ FanOutEdge(agents, lastRun.order[2], lastRun.order[1])

\* C2: a walk started at a parallel agent that depends on itself raises the
\* circular-dependency error, no mapping of agents is handed out, and the
\* text of the error names the root and every node of the cycle the walk
\* closed: the frames from the first entry of the closing name on, each of
\* which has the next in its fan_out and the last of which has the closing
\* name in its fan_out.
C2_CycleReported ==
    \A k \in 1..Len(lastRun.calls) :
        LET c == lastRun.calls[k]
            named == Range(lastRun.walkError.msg)
        IN  OnCycle(agents, c.root) =>
               /\ c.error = "circular"
               /\ lastRun.walkError.type = "ValueError"
               /\ lastRun.error.type = "ValueError"
               /\ lastRun.agents = <<>>
               /\ c.root \in named
               /\ c.closing \in Range(c.stack)
               /\ LET p == IndexOf(c.stack, c.closing)
                  IN  \A q \in p..Len(c.stack) :
                         /\ c.stack[q] \in named
                         /\ FanOutEdge(agents, c.stack[q],
                                IF q = Len(c.stack) THEN c.closing
                                ELSE c.stack[q + 1])

\* C2 witness: the two-node cycle, the walk started at one of the two.
C2_Witness ==
    \E k \in 1..Len(lastRun.calls) :
        LET c == lastRun.calls[k]
        IN  /\ c.error = "circular"
            /\ Len(c.stack) = 2
            /\ c.closing = c.root
            /\ c.stack[2] # c.root

\* C3, as claimed: the text of the circular-dependency error lists the
\* names in the order the walk entered them and ends with the name that
\* closes the cycle.
C3_PathInTraversalOrder ==
    \A k \in 1..Len(lastRun.calls) :
        LET c == lastRun.calls[k]
        IN  c.error = "circular" =>
               lastRun.walkError.msg =
                   <<"Circular dependency detected:">> \o c.stack \o <<c.closing>>

\* C4, as claimed: the error that leaves the builder is the error the walk
\* raised, unchanged.
C4_PropagatedUnchanged ==
    lastRun.walkError.type = "ValueError" => lastRun.error = lastRun.walkError

\* C4, amended: the error that leaves the builder is a new error of the
\* same type whose text is "Error creating parallel agent <root>: "
\* followed by the whole text of the walk's error.
C4_RaisedAgainWithPrefix ==
    lastRun.walkError.type = "ValueError" =>
        /\ lastRun.error.type = lastRun.walkError.type
        /\ lastRun.error.msg =
              <<"Error creating parallel agent",
                lastRun.calls[Len(lastRun.calls)].root>>
              \o lastRun.walkError.msg

\* C4 witness: a build ended by the circular-dependency error of a walk
\* through two names.
C4_Witness ==
    /\ lastRun.walkError.type = "ValueError"
    /\ Len(lastRun.walkError.msg) = 4

\* C5: no name stands twice in the order the walks of one build give, no
\* parallel agent is constructed twice, and a build that succeeds has
\* constructed exactly the parallel entries, in that order.
C5_NoNameTwice ==
    /\ NoDuplicates(lastRun.order)
    /\ NoDuplicates(NamesOf(lastRun.parallel_agents))
    /\ (lastRun.ran /\ lastRun.error = NoError) =>
          /\ NamesOf(lastRun.parallel_agents) = lastRun.order
          /\ Range(lastRun.order) = {n \in Names : IsParallel(agents, n)}

\* C5 witness: a build has succeeded in which the second root had been
\* ordered as a dependency of the first, which names it twice.
C5_Witness ==
    /\ lastRun.ran
    /\ lastRun.error = NoError
    /\ Len(lastRun.order) = 2
    /\ ParallelNamesFrom(agents, 1) = <<lastRun.order[2], lastRun.order[1]>>
    /\ Lookup(agents, lastRun.order[2]).fan_out
          = <<lastRun.order[1], lastRun.order[1]>>

C7_UnregisteredIsLeaf ==
    /\ \A i \in 1..Len(lastRun.order) : HasKey(agents, lastRun.order[i])
    /\ \A k \in 1..Len(lastRun.calls) :
          LET c == lastRun.calls[k]
          IN  (Unregistered(agents, c.root) # {} /\ CycleFree(agents, c.root)) =>
                 /\ c.error = NULL
                 /\ Len(c.deps) >= 1
                 /\ c.deps[Len(c.deps)] = c.root
                 /\ Range(c.deps) \cap Unregistered(agents, c.root) = {}

\* C7 witness: a walk has returned its root after a registered parallel
\* dependency, the root naming an unregistered agent too.
C7_Witness ==
    \E k \in 1..Len(lastRun.calls) :
        LET c == lastRun.calls[k]
        IN  /\ c.error = NULL
            /\ Unregistered(agents, c.root) # {}
            /\ Len(c.deps) = 2
            /\ c.deps[2] = c.root

\* The last declaration made under name n.
LastDeclared(n) ==
    log[CHOOSE i \in 1..Len(log) :
            /\ log[i].name = n
            /\ \A j \in (i + 1)..Len(log) : log[j].name # n]

\* The agents a build constructed, basic and parallel.
Built(run) == run.active_agents \o run.parallel_agents

\* C8: the registry holds one entry per declared name and no other, no
\* declaration is refused, each entry has the kind, instruction, fan_in
\* and fan_out of the last declaration made under its name, and every
\* agent a build constructs has the kind, instruction and references of
\* the last declaration of its name.
C8_LastDeclarationWins ==
    /\ NoDuplicates([i \in 1..Len(agents) |-> agents[i].name])
    /\ \A i \in 1..Len(log) : HasKey(agents, log[i].name)
    /\ \A i \in 1..Len(agents) :
          /\ \E j \in 1..Len(log) : log[j].name = agents[i].name
          /\ LET d == LastDeclared(agents[i].name)
             IN  /\ agents[i].type = d.kind
                 /\ agents[i].instruction = d.instruction
                 /\ agents[i].fan_in = d.fan_in
                 /\ agents[i].fan_out = d.fan_out
    /\ \A k \in 1..Len(Built(lastRun)) :
          LET a == Built(lastRun)[k]
              d == LastDeclared(a.name)
          IN  /\ a.type = d.kind
              /\ a.instruction = d.instruction
              /\ a.fan_in_agent = d.fan_in
              /\ NamesOf(a.fan_out_agents) = d.fan_out

\* C8 witness: a name declared as a basic agent and later as a parallel
\* agent has been built, as a parallel agent, by a build that succeeded.
C8_Witness ==
    /\ lastRun.ran
    /\ lastRun.error = NoError
    /\ \E i, j \in 1..Len(log) :
          /\ i < j
          /\ log[i].name = log[j].name
          /\ log[i].kind = BASIC
          /\ log[j].kind = PARALLEL
          /\ log[j].fan_out # <<>>
          /\ log[j].name \in Range(NamesOf(lastRun.parallel_agents))

\* The first value of s that is not None, None when there is none.
RECURSIVE FirstNonNull(_)
FirstNonNull(s) ==
    IF s = <<>> THEN NULL
    ELSE IF Head(s) # NULL THEN Head(s)
    ELSE FirstNonNull(Tail(s))

\* C9, as claimed: the model every built agent is given is the first value
\* that is not None of the decorator's model, the command line's model and
\* the config's default_model.
C9_FirstNonNull ==
    \A k \in 1..Len(Built(lastRun)) :
        LET a == Built(lastRun)[k]
        IN  a.llm.model_spec =
               FirstNonNull(<<Lookup(agents, a.name).model, args_model,
                              default_model>>)

C11_ExitTearsDownOnce ==
    obs.exit.happened =>
        /\ obs.exit.teardowns = 1
        /\ ~obs.exit._initialized
        /\ obs.exit._context = NoContext

\* C12, as claimed: at most one initialization is under way or done at any
\* time: the tasks waiting in initialize_context and the initialization
\* the application holds are together at most one.
C12_InitializedOnce ==
    Cardinality({t \in Tasks : procs[t].pc = "init_await"})
        + (IF app._initialized THEN 1 ELSE 0) <= 1

\* C13, as claimed: a call of cleanup() in which cleanup_context raised an
\* exception other than CancelledError does not raise, and leaves
\* _initialized unset and _context None; the exit of a run scope that
\* called cleanup_context passes on what ended the body.
C13_TeardownErrorSwallowed ==
    /\ (obs.cleanup.happened /\ obs.cleanup.outcome = "raised") =>
          /\ ~obs.cleanup.raised
          /\ ~obs.cleanup._initialized
          /\ obs.cleanup._context = NoContext
    /\ (obs.exit.happened /\ obs.exit.teardowns = 1) =>
          obs.exit.propagated = obs.exit.reason

\* C14, as claimed: a run scope entered after a run scope has been left,
\* none being open, holds a Context on which cleanup_context has never
\* been called.
C14_FreshInitialization ==
    (obs.enter.happened /\ obs.enter.after_exit) => ~obs.enter.torn

\* C15, as claimed: a run scope entered after a run scope has been torn
\* down finds no workflow registered, and the agents built in it have none
\* of the names of the agents built in the scope before, every name being
\* declared once.
C15_NoNodeSurvives ==
    /\ (obs.enter.happened /\ obs.enter.after_exit) =>
          obs.enter._workflows = {}
    /\ (prevRun.ran /\ lastRun.ran) =>
          Range(NamesOf(Built(lastRun))) \cap Range(NamesOf(Built(prevRun)))
              = {}

\* C16: a call of workflow_task on a callable that is not a coroutine
\* function raises TypeError and leaves the task registry and the
\* attributes of every callable as they were.
C16_NotAsyncRejected ==
    [][(/\ obs'.call # obs.call
        /\ obs'.call.op = "workflow_task"
        /\ ~IsCoroutineFunction(obs'.call.func)) =>
           /\ obs'.call.error = "TypeError"
           /\ world'.task_registry = world.task_registry
           /\ world'.attrs = world.attrs]_vars

\* C16 witness: inside a run scope in which a task is registered,
\* workflow_task has refused a callable that is not a coroutine function.
C16_Witness ==
    /\ obs.call.op = "workflow_task"
    /\ ~IsCoroutineFunction(obs.call.func)
    /\ obs.call.error = "TypeError"
    /\ obs.call.context # NoContext
    /\ world.task_registry # {}

\* C17, as claimed: the metadata a successful call of workflow_task
\* registers and sets on the callable holds the timeout supplied, ten
\* minutes when none was supplied, and the retry policy supplied, the
\* empty dict when none was supplied.
C17_TimeoutAsSupplied ==
    (obs.call.op = "workflow_task" /\ obs.call.error = NULL) =>
        /\ obs.call.metadata.schedule_to_close_timeout =
              (IF obs.call.schedule_to_close_timeout.none
               THEN Timedelta(600)
               ELSE obs.call.schedule_to_close_timeout)
        /\ obs.call.metadata.retry_policy =
              (IF obs.call.retry_policy.none THEN {}
               ELSE obs.call.retry_policy.items)
        /\ world.attrs[obs.call.func].execution_metadata = obs.call.metadata

C19_NoOpUnderAsyncio ==
    world.engine = "asyncio" =>
        /\ (obs.call.op = "workflow" /\ obs.call.error = NULL) =>
              obs.call.result = Class(obs.call.cls)
        /\ (obs.call.op = "workflow_run" /\ obs.call.error = NULL) =>
              \A args \in Args : obs.call.wrapper[args] = obs.call.fn[args]

\* C19 witness: under the asyncio engine workflow_run has wrapped a method
\* whose result depends on its arguments.
C19_Witness ==
    /\ world.engine = "asyncio"
    /\ obs.call.op = "workflow_run"
    /\ obs.call.error = NULL
    /\ obs.call.fn["a1"] # obs.call.fn["a2"]
    /\ obs.call.wrapper["a1"] # obs.call.wrapper["a2"]

\* C20: for every evaluator-optimizer entry whose construction a build
\* began, if its optimizer or its evaluator is not the name of an agent
\* built before (basic or parallel), the build raises the ValueError that
\* names the entry and the two names, constructs no workflow for the
\* entry, and hands out no agents.
C20_MissingAgentsRejected ==
    \A k \in 1..Len(lastRun.attempted) :
        LET e == Lookup(agents, lastRun.attempted[k])
            built == Range(NamesOf(Built(lastRun)))
        IN  (e.optimizer \notin built \/ e.evaluator \notin built) =>
               /\ lastRun.error = [type |-> "ValueError",
                                   msg |-> <<"Missing agents for workflow",
                                             e.name, e.optimizer,
                                             e.evaluator>>]
               /\ e.name \notin Range(NamesOf(lastRun.evaluator_optimizers))
               /\ lastRun.agents = <<>>

\* C20 witness: a build has constructed one evaluator-optimizer workflow
\* and then raised for a second one, whose optimizer is built and whose
\* evaluator is the name of no agent built.
C20_Witness ==
    /\ Len(lastRun.attempted) = 2
    /\ Len(lastRun.evaluator_optimizers) = 1
    /\ lastRun.error.type = "ValueError"
    /\ LET e == Lookup(agents, lastRun.attempted[2])
       IN  /\ e.optimizer \in Range(NamesOf(Built(lastRun)))
           /\ e.evaluator \notin Range(NamesOf(Built(lastRun)))

\* The exception types the builder raises by a raise statement of its own,
\* for a configuration it rejects.
ConfigurationErrorTypes == {"ValueError"}

\* The names an entry refers to.
Refs(e) ==
    IF e.type = ORCHESTRATOR THEN Range(e.child_agents)
    ELSE IF e.type = PARALLEL THEN Range(e.fan_out) \cup {e.fan_in}
    ELSE IF e.type = EVALUATOR_OPTIMIZER THEN {e.optimizer, e.evaluator}
    ELSE {}

\* All the runtime nodes a build constructed.
Constructed(run) ==
    run.active_agents \o run.orchestrators \o run.parallel_agents
    \o run.evaluator_optimizers

\* The orchestrator or parallel agent whose construction ended a build,
\* NULL when there is none: the last orchestrator begun when it was not
\* constructed, and else the first name of the build order that was not
\* constructed.
FailedComposite(run) ==
    LET oa == run.orchestrators_attempted
        unbuilt == {k \in 1..Len(run.order) :
                       run.order[k] \notin Range(NamesOf(run.parallel_agents))}
    IN  IF oa # <<>> /\ oa[Len(oa)] \notin Range(NamesOf(run.orchestrators))
        THEN oa[Len(oa)]
        ELSE IF unbuilt # {}
        THEN run.order[CHOOSE k \in unbuilt : \A m \in unbuilt : k <= m]
        ELSE NULL

\* C21: when the construction of an orchestrator or of a parallel agent
\* ends a build and the entry refers to a name that no node constructed
\* bears, the build raises a configuration error whose text holds such a
\* name, the composite is not constructed, and no agents are handed out.
C21_UnresolvedIsConfigurationError ==
    LET failed == FailedComposite(lastRun)
    IN  failed # NULL =>
           LET unresolved == Refs(Lookup(lastRun.registry, failed))
                             \ Range(NamesOf(Constructed(lastRun)))
           IN  unresolved # {} =>
                  /\ lastRun.error.type \in ConfigurationErrorTypes
                  /\ Range(lastRun.error.msg) \cap unresolved # {}
                  /\ failed \notin Range(NamesOf(Constructed(lastRun)))
                  /\ lastRun.agents = <<>>

\* The position of the node called name in the list built.
Position(built, name) == CHOOSE k \in 1..Len(built) : built[k].name = name

\* C22: every parallel agent constructed that lists a parallel agent in
\* its fan_out was constructed after that agent and holds, at that place
\* of its fan_out_agents, the node taken from parallel_agents; and the
\* construction of a parallel agent never ends a build while a parallel
\* agent of its fan_out is not constructed yet, nor with the KeyError of
\* looking such an agent up as a fan-out.
C22_DependencyBuiltFirst ==
    LET pa == lastRun.parallel_agents
        failed == FailedComposite(lastRun)
    IN  /\ \A k \in 1..Len(pa) :
              \A i \in 1..Len(pa[k].fan_out_agents) :
                 IsParallel(lastRun.registry, pa[k].fan_out_agents[i].name) =>
                    /\ pa[k].fan_out_agents[i].from = "parallel_agents"
                    /\ HasKey(pa, pa[k].fan_out_agents[i].name)
                    /\ Position(pa, pa[k].fan_out_agents[i].name) < k
        /\ failed # NULL =>
              \A n \in Range(Lookup(lastRun.registry, failed).fan_out) :
                 IsParallel(lastRun.registry, n) =>
                    /\ HasKey(pa, n)
                    /\ n # Lookup(lastRun.registry, failed).fan_in =>
                          lastRun.error # KeyError(n)

\* C22 witness: a parallel agent declared before the parallel agent of its
\* fan_out has been constructed after it and is wired to it.
C22_Witness ==
    \E k \in 1..Len(lastRun.parallel_agents) :
       LET d == lastRun.parallel_agents[k]
       IN  \E i \in 1..Len(d.fan_out_agents) :
              LET n == d.fan_out_agents[i].name
              IN  /\ IsParallel(lastRun.registry, n)
                  /\ d.fan_out_agents[i].from = "parallel_agents"
                  /\ Position(lastRun.registry, d.name)
                        < Position(lastRun.registry, n)
                  /\ Position(lastRun.parallel_agents, n) < k

\* The graph of all references of a registry: an edge goes from an entry
\* to each name it refers to as a child, a fan-out, a fan-in, an optimizer
\* or an evaluator.
RefEdge(reg, from, to) == HasKey(reg, from) /\ to \in Refs(Lookup(reg, from))

RECURSIVE RefReachWithin(_, _, _)
RefReachWithin(reg, S, k) ==
    IF k = 0 THEN S
    ELSE RefReachWithin(reg,
             S \cup {b \in Names : \E a \in S : RefEdge(reg, a, b)}, k - 1)

RefAcyclic(reg) ==
    \A n \in Names :
       n \notin RefReachWithin(reg, {b \in Names : RefEdge(reg, n, b)},
                               Cardinality(Names))

AllRefsRegistered(reg) ==
    \A i \in 1..Len(reg) : \A n \in Refs(reg[i]) : HasKey(reg, n)

\* C23: a build of a registry in which every name referred to is
\* registered and no entry refers to itself, directly or through others,
\* raises nothing and hands out a node for every entry, whatever the kinds
\* of the entries referred to.
C23_RegisteredAcyclicBuilds ==
    (lastRun.ran /\ AllRefsRegistered(lastRun.registry)
                 /\ RefAcyclic(lastRun.registry)) =>
        /\ lastRun.error = NoError
        /\ Range(NamesOf(lastRun.agents)) = Range(NamesOf(lastRun.registry))

\* C26: a call of run() whose build ends with the error of a circular
\* dependency leaves self.agents as it was before the call and hands out
\* no agents.
C26_CircularFailureIsLocal ==
    [][(Run /\ lastRun'.walkError.type = "ValueError") =>
          /\ agents' = agents
          /\ lastRun'.agents = <<>>]_vars

\* C26 witness: a build has ended with the error of a circular dependency
\* after it had constructed a basic agent and a parallel agent, and the
\* registry holds the entries the build was given.
C26_Witness ==
    /\ lastRun.walkError.type = "ValueError"
    /\ lastRun.active_agents # <<>>
    /\ lastRun.parallel_agents # <<>>
    /\ lastRun.agents = <<>>
    /\ agents = lastRun.registry

\* C27: while the body of a run scope executes, self.agents is the
\* registry the build of the scope was given.
C27_RegistryReadOnlyInRun ==
    (phase = "run" /\ procs["t1"].pc = "body") => agents = lastRun.registry

\* C24: every parallel agent constructed holds the nodes of its declared
\* fan_out names, one per name and in the declared order; the fan-in agent
\* of a parallel workflow is given nothing while a fan-out agent has not
\* completed, and what it is given is the results of the declared fan_out
\* names, one per name and in the declared order.
C24_FanInInDeclarationOrder ==
    /\ \A k \in 1..Len(lastRun.parallel_agents) :
          NamesOf(lastRun.parallel_agents[k].fan_out_agents)
             = Lookup(lastRun.registry, lastRun.parallel_agents[k].name).fan_out
    /\ exec.kind = PARALLEL =>
          LET fan_out == Lookup(lastRun.registry, exec.node).fan_out
          IN  /\ exec.pending # {} => exec.fan_in_input = <<>>
              /\ exec.pc = "done" =>
                    exec.fan_in_input
                       = [i \in 1..Len(fan_out) |-> ResultOf(fan_out[i])]

\* C24 witness: the fan-in agent has been given the results of two fan-out
\* agents of which the second completed first.
C24_Witness ==
    /\ exec.kind = PARALLEL
    /\ exec.pc = "done"
    /\ exec.completed = <<2, 1>>
    /\ exec.fan_in_input = <<ResultOf(exec.fan_out[1]), ResultOf(exec.fan_out[2])>>
    /\ exec.fan_out[1] # exec.fan_out[2]

\* What holds of the loop of an evaluator-optimizer workflow at every
\* moment: it has made no more iterations than the max_refinements
\* declared, no rating before the last met the min_rating declared, it
\* goes on only while fewer than max_refinements iterations are made and
\* no rating met min_rating, and when it has ended, the threshold is
\* reported met exactly when the last rating met it and, when not met,
\* exactly max_refinements iterations were made.
RefineInvariant ==
    exec.kind = EVALUATOR_OPTIMIZER =>
       LET e == Lookup(lastRun.registry, exec.node)
           n == Len(exec.ratings)
       IN  /\ n <= e.max_refinements
           /\ \A k \in 1..(n - 1) : ~Meets(exec.ratings[k], e.min_rating)
           /\ exec.pc = "refining" =>
                 /\ n < e.max_refinements
                 /\ \A k \in 1..n : ~Meets(exec.ratings[k], e.min_rating)
           /\ exec.pc = "done" =>
                 /\ n >= 1
                 /\ exec.met = Meets(exec.ratings[n], e.min_rating)
                 /\ ~exec.met => n = e.max_refinements

\* C25: the loop of an evaluator-optimizer workflow keeps RefineInvariant
\* and, once started, ends: it stops at the first rating that meets
\* min_rating and else after exactly max_refinements iterations (with
\* min_rating GOOD, max_refinements 3 and every rating POOR: after exactly
\* 3 iterations, the threshold reported not met).
C25_LoopTerminates ==
    /\ []RefineInvariant
    /\ (exec.pc = "refining") ~> (exec.pc = "done")

\* C25 witness: a loop declared with min_rating GOOD and max_refinements 3
\* has ended after three ratings POOR, the threshold not met.
C25_Witness ==
    /\ exec.kind = EVALUATOR_OPTIMIZER
    /\ exec.pc = "done"
    /\ Lookup(lastRun.registry, exec.node).min_rating = "GOOD"
    /\ Lookup(lastRun.registry, exec.node).max_refinements = 3
    /\ exec.ratings = <<"POOR", "POOR", "POOR">>
    /\ ~exec.met

\* C28: a call of send() with a name that is not in the mapping raises
\* the ValueError "Agent <name> not found"; with the name of an agent
\* that has no _llm attribute, or None as its _llm, it raises the
\* RuntimeError "Agent <name> has no LLM attached"; in both cases no
\* generate_str is called.
C28_SendFailsWithoutCalling ==
    wrapper.sent.happened =>
       LET n == wrapper.sent.agent_name
       IN  /\ ~HasKey(wrapper.agents, n) =>
                /\ wrapper.sent.error = NotFound(n)
                /\ wrapper.sent.calls = <<>>
           /\ (HasKey(wrapper.agents, n)
               /\ Lookup(wrapper.agents, n) \in
                     {AgentObject(n, FALSE, NULL), AgentObject(n, TRUE, NULL)}) =>
                /\ wrapper.sent.error = NoLlmAttached(n)
                /\ wrapper.sent.calls = <<>>

\* C28 witness: send() has been called with the name of an agent of the
\* mapping whose _llm is None, beside an agent that has an LLM.
C28_Witness ==
    /\ wrapper.sent.happened
    /\ HasKey(wrapper.agents, wrapper.sent.agent_name)
    /\ Lookup(wrapper.agents, wrapper.sent.agent_name)._llm = NULL
    /\ Lookup(wrapper.agents, wrapper.sent.agent_name).has_llm
    /\ \E i \in 1..Len(wrapper.agents) : wrapper.agents[i]._llm = LLM
    /\ wrapper.sent.error.type = "RuntimeError"

\* The content parts of the multipart messages before the k-th.
RECURSIVE PartsBefore(_, _)
PartsBefore(multipart, k) ==
    IF k <= 1 THEN 0
    ELSE Len(multipart[k - 1].content) + PartsBefore(multipart, k - 1)

\* C29: the flattening of a list of multipart messages has as many
\* messages as the multipart messages have content parts together, and
\* the j-th part of the k-th multipart message is the content of the
\* message that stands j places after those of the multipart messages
\* before the k-th, which bears the role of the k-th.
C29_FlattenedInOrder ==
    "from_multipart" \in prompt.converted =>
       /\ Len(prompt.flattened)
             = PartsBefore(prompt.multipart, Len(prompt.multipart) + 1)
       /\ \A k \in 1..Len(prompt.multipart) :
             \A j \in 1..Len(prompt.multipart[k].content) :
                prompt.flattened[PartsBefore(prompt.multipart, k) + j]
                   = PromptMessage(prompt.multipart[k].role,
                                   prompt.multipart[k].content[j])

\* C29 witness: two multipart messages of different roles, the first
\* with two different parts, have been flattened into three messages.
C29_Witness ==
    /\ "from_multipart" \in prompt.converted
    /\ Len(prompt.multipart) = 2
    /\ prompt.multipart[1].role = "assistant"
    /\ prompt.multipart[2].role = "user"
    /\ Len(prompt.multipart[1].content) = 2
    /\ prompt.multipart[1].content[1] # prompt.multipart[1].content[2]
    /\ Len(prompt.flattened) = 3

\* C30: what to_multipart gives has no two neighbours of the same role
\* and no multipart message without content, it is empty for no messages,
\* and flattening it gives back the messages it was made of.
C30_RoundTrip ==
    "to_multipart" \in prompt.converted =>
       /\ \A k \in 1..(Len(prompt.multipart) - 1) :
             prompt.multipart[k].role # prompt.multipart[k + 1].role
       /\ \A k \in 1..Len(prompt.multipart) :
             prompt.multipart[k].content # <<>>
       /\ prompt.messages = <<>> => prompt.multipart = <<>>
       /\ "from_multipart" \in prompt.converted =>
             prompt.flattened = prompt.messages

\* C30 witness: three messages, the first two of one role, have been
\* grouped into two multipart messages and flattened again.
C30_Witness ==
    /\ prompt.converted = {"to_multipart", "from_multipart"}
    /\ Len(prompt.messages) = 3
    /\ prompt.messages[1].role = prompt.messages[2].role
    /\ prompt.messages[2].role # prompt.messages[3].role
    /\ Len(prompt.multipart) = 2
    /\ Len(prompt.flattened) = 3


\* C31: the messages created from content sections are, for each section
\* in order, one text message of the section's text and then one message
\* for each resource of the section that loads, in the order of the
\* resources, all with the section's role, an invalid role being user; a
\* resource that does not load is passed over, and the resources and
\* sections after it are still handled.
Loadable(resources) ==
    SelectSeq(resources, LAMBDA p : ~LoadResourceContent(p).raised)

\* The number of messages the sections before the i-th account for.
RECURSIVE Offset(_, _)
Offset(content_sections, i) ==
    IF i <= 1 THEN 0
    ELSE Offset(content_sections, i - 1) + 1
         + Len(Loadable(content_sections[i - 1].resources))

SectionRole(section) ==
    IF section.role \in {"user", "assistant"} THEN section.role ELSE "user"

C31_MessagesPerSection ==
    prompt.created =>
       /\ Len(prompt.messages)
             = Offset(prompt.sections, Len(prompt.sections) + 1)
       /\ \A i \in 1..Len(prompt.sections) :
             LET section == prompt.sections[i]
                 at == Offset(prompt.sections, i)
                 loaded == Loadable(section.resources)
             IN  /\ prompt.messages[at + 1].role = SectionRole(section)
                 /\ prompt.messages[at + 1].content
                       = [type |-> "text", of |-> section.text]
                 /\ \A j \in 1..Len(loaded) :
                       /\ prompt.messages[at + 1 + j].role
                             = SectionRole(section)
                       /\ prompt.messages[at + 1 + j].content.type # "text"
                       /\ prompt.messages[at + 1 + j].content.of = loaded[j]

\* Messages were created of two sections, the first with a resource that
\* does not load before one that does, the second of an invalid role.
C31_Witness ==
    /\ prompt.created
    /\ Len(prompt.sections) = 2
    /\ prompt.sections[1].resources = <<"missing.txt", "a.txt">>
    /\ prompt.sections[2].role = "system"
    /\ Len(prompt.messages) = 3


\* C32: merging settings dicts is a recursive overlay: the result has the
\* keys of both; a key of both whose two values are dicts has the merge of
\* the two; any other key of the update has the update's value; a key of
\* the base alone keeps the base's value; and the base dict handed in is
\* as it was.
RECURSIVE IsOverlay(_, _, _)
IsOverlay(r, b, u) ==
    /\ DOMAIN r = DOMAIN b \cup DOMAIN u
    /\ \A k \in DOMAIN r :
          IF k \in DOMAIN b /\ k \in DOMAIN u /\ b[k].isdict /\ u[k].isdict
          THEN r[k].isdict /\ IsOverlay(r[k].items, b[k].items, u[k].items)
          ELSE IF k \in DOMAIN u THEN r[k] = u[k]
          ELSE r[k] = b[k]

C32_RecursiveOverlay ==
    settings.merged # 0 =>
       /\ IsOverlay(ValueAt(settings.heap, settings.merged),
                    ValueAt(settings.before, settings.base),
                    ValueAt(settings.before, settings.update))
       /\ \A addr \in 1..Len(settings.before) :
             settings.heap[addr] = settings.before[addr]

\* A merge was made where base and update both hold a dict under a, and
\* these both a dict under a, of different scalars, and base alone has b.
C32_Witness ==
    /\ settings.merged # 0
    /\ LET b == ValueAt(settings.before, settings.base)
           u == ValueAt(settings.before, settings.update)
       IN  /\ DOMAIN b = {"a", "b"} /\ DOMAIN u = {"a"}
           /\ b["a"].isdict /\ u["a"].isdict
           /\ "a" \in DOMAIN b["a"].items /\ "a" \in DOMAIN u["a"].items
           /\ b["a"].items["a"].isdict /\ u["a"].items["a"].isdict
           /\ b["a"].items["a"].items # u["a"].items["a"].items
           /\ u["a"].items["a"].items # <<>>


\* C33, as claimed: when a task leaves its run scope while the body of
\* another run scope on the application is still running, the application
\* keeps a Context, and one on which cleanup_context has not been called.
C33_ContextOutlivesInnerExit ==
    [][\A t \in Tasks :
          (/\ procs[t].op = "run"
           /\ procs[t].pc \in {"body", "cleanup_await"}
           /\ procs'[t].pc = "idle"
           /\ \E u \in Tasks \ {t} :
                 procs'[u].op = "run" /\ procs'[u].pc = "body") =>
             /\ app'._context # NoContext
             /\ app'._context \notin world'.torn]_vars

\* C34: in every state, each being a point between two awaits, and so
\* after calls of initialize_context and cleanup_context that raised or
\* were cancelled, _initialized is set exactly when _context is not None.
C34_InitializedIffContext ==
    app._initialized <=> app._context # NoContext

\* A call of cleanup() has failed in cleanup_context, leaving the
\* application initialized, and another task is waiting inside
\* cleanup_context.
C34_Witness ==
    /\ obs.cleanup.happened
    /\ obs.cleanup.outcome = "raised"
    /\ app._initialized
    /\ \E t \in Tasks : procs[t].pc = "cleanup_await"


\* The places of scope.events where the basic agent of the given name was
\* left.
Exits(name) ==
    {k \in 1..Len(scope.events) :
        scope.events[k].kind = "aexit" /\ scope.events[k].name = name}

BodyEnds == {k \in 1..Len(scope.events) : scope.events[k].kind = "body_end"}

EnteredAgents ==
    {scope.events[k].name : k \in {j \in 1..Len(scope.events) :
                                      scope.events[j].kind = "aenter"}}

\* C35, as claimed: no basic agent is left before the body of the scope
\* has ended, and when the scope whose body was reached is closed, every
\* basic agent entered has been left exactly once.
C35_ExitedOnceAfterBody ==
    /\ \A name \in EnteredAgents :
          \A k \in Exits(name) : \E b \in BodyEnds : b < k
    /\ (scope.pc = "closed" /\ BodyEnds # {}) =>
          \A name \in EnteredAgents : Cardinality(Exits(name)) = 1

\* C36, as claimed: when run() has been left, cleanup() of the application
\* has been called, after every call of __aexit__; and when the body was
\* reached, every basic agent of the mapping has been left after the end
\* of the body, also when a call of __aexit__ raised.
C36_TeardownBeforeCleanup ==
    scope.pc = "closed" =>
       /\ scope.events[Len(scope.events)].kind = "cleanup"
       /\ scope.events[Len(scope.events)].outcome = "called"
       /\ BodyEnds # {} =>
             \A n \in 1..Len(scope.mapping) :
                IsAgent(scope.mapping[n]) =>
                   \E k \in Exits(scope.mapping[n].name) :
                      \E b \in BodyEnds : b < k


\* C37, as claimed: a callable is reported as a workflow task exactly when
\* a call of workflow_task on it has returned; the metadata set on such a
\* callable is the metadata the task registry holds under the activity
\* name of that metadata; a call that returns gives back the callable it
\* was given, and the activity name of its metadata is the name supplied,
\* or the module and qualified name of the callable when none was.
Registered(w, func) ==
    \E e \in w.task_registry :
       /\ e.key = w.attrs[func].execution_metadata.activity_name
       /\ e.value.metadata = w.attrs[func].execution_metadata

C37_ReportedIffRegistered ==
    /\ [](\A func \in TaskFuncs :
             IsWorkflowTask(world, func) => Registered(world, func))
    /\ []((obs.call.happened /\ obs.call.error = NULL) =>
             /\ obs.call.result = obs.call.func
             /\ obs.call.metadata.activity_name =
                   (IF obs.call.name # NULL THEN obs.call.name
                    ELSE QualName(obs.call.func)))
    /\ [][\A func \in TaskFuncs :
             IsWorkflowTask(world', func) <=>
                \/ IsWorkflowTask(world, func)
                \/ /\ obs'.call # obs.call
                   /\ obs'.call.func = func
                   /\ obs'.call.error = NULL]_vars

\* C38: the settings object is loaded once per process: once _settings
\* holds an object, every later call of get_settings returns that object,
\* whatever config path it is given and whatever the files hold by then;
\* it builds no other object and leaves the one held as it was, so the
\* execution engine read from the settings is the same at every call.
C38_LoadedOnce ==
    [][(settings._settings # 0 /\ settings'.call # settings.call) =>
          /\ settings'.call.result = settings._settings
          /\ settings'.call.error = NULL
          /\ ~settings'.call.loaded
          /\ settings'._settings = settings._settings
          /\ settings'.objects = settings.objects
          /\ ExecutionEngine(settings', settings'.call.result) =
                ExecutionEngine(settings, settings._settings)]_vars

\* C38 witness: a first call loaded the settings with the asyncio engine;
\* the last call, made with the path of a file that by now sets the
\* temporal engine, returned the object of the first.
C38_Witness ==
    /\ settings.call.n >= 2
    /\ settings.call.config_path = "other.yaml"
    /\ settings.files["other.yaml"] = "temporal"
    /\ settings.secrets = "missing"
    /\ settings.call.error = NULL
    /\ settings.call.result = 1
    /\ ExecutionEngine(settings, 1) = "asyncio"

\* The names of the declarations made, each at the place of its first
\* declaration.
RECURSIVE FirstDeclared(_, _, _)
FirstDeclared(l, i, acc) ==
    IF i > Len(l) THEN acc
    ELSE FirstDeclared(l, i + 1,
                       IF l[i].name \in Range(acc) THEN acc
                       ELSE Append(acc, l[i].name))

\* The kind of the last declaration made under name.
RECURSIVE LastKind(_, _, _)
LastKind(l, i, name) ==
    IF i = 0 THEN NULL
    ELSE IF l[i].name = name THEN l[i].kind
    ELSE LastKind(l, i - 1, name)

\* The names declared whose last declaration is of one of kinds, in the
\* order of their first declarations.
OfKinds(l, kinds) ==
    SelectSeq(FirstDeclared(l, 1, <<>>),
              LAMBDA name : LastKind(l, Len(l), name) \in kinds)

\* The agent a call without a name goes to, told from the declarations:
\* the first basic agent; with none, the first orchestrator; with none,
\* the parallel agent built first.
ExpectedDefault(l, order) ==
    IF OfKinds(l, {BASIC}) # <<>> THEN OfKinds(l, {BASIC})[1]
    ELSE IF OfKinds(l, {ORCHESTRATOR}) # <<>>
    THEN OfKinds(l, {ORCHESTRATOR})[1]
    ELSE IF order # <<>> THEN order[1]
    ELSE NULL

\* C39: a call of the wrapper without an agent name goes to the first
\* entry of the mapping run() built, and to no other agent; that entry is
\* the first declared basic agent when there is one and else the first
\* composite in build order, a name declared again counting at the place
\* of its first declaration; on an empty mapping the call raises
\* ValueError("No agents available") and calls no agent.
C39_DefaultIsFirstBuilt ==
    (wrapper.sent.happened /\ wrapper.arg = NULL) =>
       /\ Len(lastRun.agents) > 0 =>
             /\ wrapper.sent.agent_name = lastRun.agents[1].name
             /\ wrapper.sent.agent_name =
                   ExpectedDefault(log, lastRun.order)
             /\ wrapper.sent.error = NoError
             /\ wrapper.sent.calls =
                   <<[agent |-> lastRun.agents[1].name,
                      message |-> wrapper.sent.message]>>
       /\ Len(lastRun.agents) = 0 =>
             /\ wrapper.sent.error = NoAgentsAvailable
             /\ wrapper.sent.calls = <<>>

\* C39 witness: C was declared, then A, then C again; the mapping holds
\* both and a call without a name went to C.
C39_Witness ==
    /\ wrapper.sent.happened
    /\ wrapper.arg = NULL
    /\ Len(log) = 3
    /\ log[1].name = "C" /\ log[2].name = "A" /\ log[3].name = "C"
    /\ Len(lastRun.agents) = 2
    /\ wrapper.sent.calls = <<[agent |-> "C", message |-> "m1"]>>

====
